---- MODULE Spec2Model ----
(***************************************************************************)
(* A model of the retrieval-and-ranking engine of the "dave" backend:      *)
(*   - the result reranker (infrastructure/vector_store/result_reranker.py)*)
(*   - the RAG query use case (application/use_cases/rag_query.py)         *)
(*   - the memory entity and repository (domain/entities/memory.py,        *)
(*     infrastructure/vector_store/memory_repository.py)                   *)
(*   - duplicate suppression of the memory extraction use cases            *)
(*   - document chunking and indexing (infrastructure/vector_store/        *)
(*     chunking.py, document_repository.py)                                *)
(*                                                                         *)
(* Numbers.  Python floats are modelled in exact fixed point: a score,     *)
(* similarity or relevance of 1.0 is the integer One; weights and lambda   *)
(* are in tenths.  Final scores of the reranker are in units of            *)
(* 1/(One*FScale) so that every boost the code computes is an integer.     *)
(* Text is a sequence of one-character strings.  Timestamps are day        *)
(* numbers.                                                                *)
(***************************************************************************)
EXTENDS Integers, Sequences, FiniteSets, TLC

VARIABLES
    now,      \* the wall clock (datetime.now / datetime.utcnow), in days
    index,    \* the memories collection of the vector index: id -> payload
    rag,      \* the running RAGQueryUseCase.query call: position and locals
    ext,      \* the running _filter_duplicates call: position and locals
    rr,       \* a direct call of the reranker functions: inputs and result
    mem,      \* a Memory object under direct method calls, and the last result
    tasks,    \* the running MemoryRepository / DocumentRepository calls
    docs,     \* the documents collection of the vector index: a set of points
    ch,       \* the running chunking generator: position, locals, last yield
    emb       \* the EmbeddingService: its cache, the provider and the running call

vars == <<now, index, rag, ext, rr, mem, tasks, docs, ch, emb>>

(***************************************************************************)
(* Fixed-point scales and generic helpers                                  *)
(***************************************************************************)
\* 1.0 as a fixed-point integer
One == 100 * 100
\* final scores are in units of 1/(One*FScale): 365 for max_age_days, 100 for
\* the 0.01 rank penalty of _mmr_rerank
FScale == 365 * 100
\* word-overlap ratios |A & B| / max(|A|,|B|) are in units of 1/OvScale
OvScale == 3 * 4 * 5
\* Python objects are records; hasattr(obj, name)
HasAttr(obj, name) == name \in DOMAIN obj

\* F applied to the value of x, computed once (Python evaluates a call's
\* arguments and an assignment's right-hand side once, before they are used)
With(x, F(_)) == CHOOSE r \in {F(v) : v \in {x}} : TRUE

\* a sequence given by a rule, as a list whose elements are computed once
List(f) == SubSeq(f, 1, Len(f))

Min(a, b) == IF a <= b THEN a ELSE b
Max(a, b) == IF a >= b THEN a ELSE b
Range(s) == {s[i] : i \in DOMAIN s}

\* Python's s[:k]
Take(s, k) ==
    IF k >= 0 THEN SubSeq(s, 1, Min(k, Len(s)))
    ELSE SubSeq(s, 1, Max(0, Len(s) + k))

\* Python's list.pop(i) leaves this list (i is 1-based here)
RemoveAt(s, i) == SubSeq(s, 1, i - 1) \o SubSeq(s, i + 1, Len(s))

(***************************************************************************)
(* Text: str.lower, re.findall(r"\b\w+\b", .), str.split, and "in"         *)
(***************************************************************************)
LowerMap ==
    ("A" :> "a") @@ ("B" :> "b") @@ ("C" :> "c") @@ ("D" :> "d") @@ ("E" :> "e") @@ ("F" :> "f") @@
    ("G" :> "g") @@ ("H" :> "h") @@ ("I" :> "i") @@ ("J" :> "j") @@ ("K" :> "k") @@ ("L" :> "l") @@
    ("M" :> "m") @@ ("N" :> "n") @@ ("O" :> "o") @@ ("P" :> "p") @@ ("Q" :> "q") @@ ("R" :> "r") @@
    ("S" :> "s") @@ ("T" :> "t") @@ ("U" :> "u") @@ ("V" :> "v") @@ ("W" :> "w") @@ ("X" :> "x") @@
    ("Y" :> "y") @@ ("Z" :> "z")

Digits == {"0", "1", "2", "3", "4", "5", "6", "7", "8", "9"}
\* \w after lower(): letters, digits and the underscore
WordChars == {LowerMap[c] : c \in DOMAIN LowerMap} \cup Digits \cup {"_"}
Whitespace == {" ", "\t", "\n"}

\* str.lower()
Lower(text) == [i \in DOMAIN text |-> IF text[i] \in DOMAIN LowerMap THEN LowerMap[text[i]] ELSE text[i]]

\* the maximal runs of characters of Keep (when inKeep) or outside Keep (otherwise)
RECURSIVE Runs(_, _, _, _)
Runs(text, cur, Keep, inKeep) ==
    LET flush == IF cur = <<>> THEN <<>> ELSE <<cur>> IN
    IF text = <<>> THEN flush
    ELSE IF (Head(text) \in Keep) = inKeep
         THEN Runs(Tail(text), Append(cur, Head(text)), Keep, inKeep)
         ELSE flush \o Runs(Tail(text), <<>>, Keep, inKeep)

\* re.findall(r"\b\w+\b", text)
FindWords(text) == Runs(text, <<>>, WordChars, TRUE)
\* text.split()
Split(text) == Runs(text, <<>>, Whitespace, FALSE)

\* Python's  k in s  on strings
IsSubstr(k, s) == \E i \in 0..(Len(s) - Len(k)) : SubSeq(s, i + 1, i + Len(k)) = k

STOP_WORDS == {
    <<"a">>, <<"a","n">>, <<"t","h","e">>, <<"a","n","d">>, <<"o","r">>, <<"b","u","t">>,
    <<"i","n">>, <<"o","n">>, <<"a","t">>, <<"t","o">>, <<"f","o","r">>, <<"o","f">>,
    <<"w","i","t","h">>, <<"b","y">>, <<"f","r","o","m">>, <<"a","s">>, <<"i","s">>,
    <<"w","a","s">>, <<"a","r","e">>, <<"w","e","r","e">>, <<"b","e","e","n">>,
    <<"b","e">>, <<"h","a","v","e">>, <<"h","a","s">>, <<"h","a","d">>, <<"d","o">>,
    <<"d","o","e","s">>, <<"d","i","d">>, <<"w","i","l","l">>, <<"w","o","u","l","d">>,
    <<"c","o","u","l","d">>, <<"s","h","o","u","l","d">>, <<"m","a","y">>,
    <<"m","i","g","h","t">>, <<"m","u","s","t">>, <<"s","h","a","l","l">>, <<"c","a","n">>,
    <<"n","e","e","d">>, <<"i","t">>, <<"i","t","s">>, <<"t","h","i","s">>,
    <<"t","h","a","t">>, <<"t","h","e","s","e">>, <<"t","h","o","s","e">>, <<"i">>,
    <<"y","o","u">>, <<"h","e">>, <<"s","h","e">>, <<"w","e">>, <<"t","h","e","y">>,
    <<"w","h","a","t">>, <<"w","h","i","c","h">>, <<"w","h","o">>, <<"w","h","o","m">>,
    <<"h","o","w">>, <<"w","h","e","n">>, <<"w","h","e","r","e">>, <<"w","h","y">>,
    <<"a","l","l">>, <<"e","a","c","h">>, <<"e","v","e","r","y">>, <<"b","o","t","h">>,
    <<"f","e","w">>, <<"m","o","r","e">>, <<"m","o","s","t">>, <<"o","t","h","e","r">>,
    <<"s","o","m","e">>, <<"s","u","c","h">>, <<"n","o">>, <<"n","o","r">>,
    <<"n","o","t">>, <<"o","n","l","y">>, <<"o","w","n">>, <<"s","a","m","e">>,
    <<"s","o">>, <<"t","h","a","n">>, <<"t","o","o">>, <<"v","e","r","y">>,
    <<"j","u","s","t">>, <<"a","b","o","u","t">>, <<"i","n","t","o">>,
    <<"t","h","r","o","u","g","h">>, <<"d","u","r","i","n","g">>,
    <<"b","e","f","o","r","e">>, <<"a","f","t","e","r">>, <<"a","b","o","v","e">>,
    <<"b","e","l","o","w">>, <<"b","e","t","w","e","e","n">>, <<"u","n","d","e","r">>
    }

\* extract_keywords(text)
extract_keywords(text) ==
    {w \in Range(FindWords(Lower(text))) : w \notin STOP_WORDS /\ Len(w) > 2}

\* A ratio a float holds, kept exact: num/den
Frac(n, d) == [num |-> n, den |-> d]

\* a match score that is 1 as soon as one keyword is found
keyword_match_score_any(query_keywords, content) ==
    IF \E kw \in query_keywords : IsSubstr(kw, Lower(content))
    THEN Frac(1, 1) ELSE Frac(0, 1)

\* keyword_match_score(query_keywords, content)
keyword_match_score(query_keywords, content) ==
    IF query_keywords = {} THEN Frac(0, 1)
    ELSE Frac(Cardinality({kw \in query_keywords : IsSubstr(kw, Lower(content))}),
              Cardinality(query_keywords))

\* recency_score(timestamp, max_age_days), read at clock value t
recency_score(timestamp, max_age_days, t) ==
    LET age == t - timestamp IN
    IF age <= 0 THEN Frac(1, 1)
    ELSE IF age >= max_age_days THEN Frac(0, 1)
    ELSE Frac(max_age_days - age, max_age_days)

\* ratio * weight (weight in tenths) as a final-score boost
Boost(ratio, weight) == ratio.num * ((weight * (One \div 10) * FScale) \div ratio.den)

(***************************************************************************)
(* mmr_rerank                                                              *)
(***************************************************************************)
\* default lambda_param of mmr_rerank and _mmr_rerank, in tenths
LAMBDA_DEFAULT == 7

\* set(content.lower().split())
WordSet(content) == Range(Split(Lower(content)))

\* the overlap of two contents, |A & B| / max(|A|, |B|), in units of 1/OvScale
Overlap(sel_content, content) ==
    LET sel_words == WordSet(sel_content)
        cur_words == WordSet(content)
    IN (Cardinality(sel_words \cap cur_words) * OvScale)
           \div Max(Cardinality(sel_words), Cardinality(cur_words))

\* max_sim of one remaining content against the selected items
RECURSIVE MaxSim(_, _, _)
MaxSim(selected, content, max_sim) ==
    IF selected = <<>> THEN max_sim
    ELSE LET sel == Head(selected) IN
         IF WordSet(sel.content) # {} /\ WordSet(content) # {}
         THEN MaxSim(Tail(selected), content, Max(max_sim, Overlap(sel.content, content)))
         ELSE MaxSim(Tail(selected), content, max_sim)

\* mmr_score = lambda*relevance + (1-lambda)*diversity, in units 1/(10*One*OvScale)
MmrScore(selected, cand, lambda_param) ==
    LET diversity == IF selected # <<>> THEN OvScale - MaxSim(selected, cand.content, 0)
                     ELSE OvScale
    IN lambda_param * cand.score * OvScale + (10 - lambda_param) * One * diversity

\* the comparison with >= in place of >: among equal MMR scores the last one
\* wins, a variant the tie rule must reject
MmrBetter_last_wins(mmr_score, best) == best.inf \/ mmr_score >= best.score

\* does mmr_score replace the best so far (best_mmr_score starts at -inf)
MmrBetter(mmr_score, best) == best.inf \/ mmr_score > best.score

\* the inner for loop: best_idx over remaining, scanning from position i
RECURSIVE BestIdx(_, _, _, _, _)
BestIdx(selected, remaining, lambda_param, i, best) ==
    IF i > Len(remaining) THEN best.idx
    ELSE LET mmr_score == MmrScore(selected, remaining[i], lambda_param) IN
         IF MmrBetter(mmr_score, best)
         THEN BestIdx(selected, remaining, lambda_param, i + 1,
                      [idx |-> i, score |-> mmr_score, inf |-> FALSE])
         ELSE BestIdx(selected, remaining, lambda_param, i + 1, best)

\* what one selection step does to (selected, remaining)
MmrPick(selected, remaining, lambda_param) ==
    LET best_idx == BestIdx(selected, remaining, lambda_param, 1,
                            [idx |-> 1, score |-> 0, inf |-> TRUE])
    IN [selected |-> Append(selected, remaining[best_idx]),
        remaining |-> RemoveAt(remaining, best_idx)]

\* the while loop
RECURSIVE MmrLoop(_, _, _, _)
MmrLoop(selected, remaining, lambda_param, top_k) ==
    IF Len(selected) < top_k /\ remaining # <<>>
    THEN LET nxt == MmrPick(selected, remaining, lambda_param)
         IN MmrLoop(nxt.selected, nxt.remaining, lambda_param, top_k)
    ELSE selected

\* mmr_rerank(results, lambda_param, top_k); results are [item, score, content],
\* the returned (item, score) pairs keep the content field for reading only
mmr_rerank(results, lambda_param, top_k) ==
    IF results = <<>> THEN <<>>
    ELSE IF Len(results) <= top_k THEN results
    ELSE MmrLoop(<<>>, results, lambda_param, top_k)

(***************************************************************************)
(* ResultReranker                                                          *)
(***************************************************************************)
\* keyword_weight (tenths), recency_weight standalone and in hybrid (tenths),
\* max_age_days: the defaults, no caller passes others
KEYWORD_WEIGHT == 3
RECENCY_WEIGHT == 2
HYBRID_RECENCY_WEIGHT == 1
MAX_AGE_DAYS == 365

Strategies == {"keyword", "recency", "hybrid", "mmr"}

\* getattr(result, "last_modified", None), else getattr(result, "timestamp", now)
TimestampOf(result, t) ==
    IF HasAttr(result, "last_modified") THEN result.last_modified
    ELSE IF HasAttr(result, "timestamp") THEN result.timestamp
    ELSE t

RerankedResult(item, original, final) ==
    [original_item |-> item, original_score |-> original, final_score |-> final]

\* ResultReranker._keyword_boost
keyword_boost(results, query) ==
    LET query_keywords == extract_keywords(query) IN
    [i \in DOMAIN results |->
        LET boost == Boost(keyword_match_score(query_keywords, results[i].content),
                           KEYWORD_WEIGHT)
        IN RerankedResult(i, results[i].score, results[i].score * FScale + boost)]

\* ResultReranker._recency_boost
recency_boost(results, query, t) ==
    [i \in DOMAIN results |->
        LET boost == Boost(recency_score(TimestampOf(results[i], t), MAX_AGE_DAYS, t),
                           RECENCY_WEIGHT)
        IN RerankedResult(i, results[i].score, results[i].score * FScale + boost)]

\* ResultReranker._hybrid_boost
hybrid_boost(results, query, t) ==
    LET query_keywords == extract_keywords(query) IN
    [i \in DOMAIN results |->
        LET kw_boost == Boost(keyword_match_score(query_keywords, results[i].content),
                              KEYWORD_WEIGHT)
            rec_boost == Boost(recency_score(TimestampOf(results[i], t), MAX_AGE_DAYS, t),
                               HYBRID_RECENCY_WEIGHT)
        IN RerankedResult(i, results[i].score,
                          results[i].score * FScale + kw_boost + rec_boost)]

\* ResultReranker._mmr_rerank: mmr_rerank with top_k = len(results), then a
\* penalty of 1% of the score per rank
mmr_strategy(results, query) ==
    LET mmr_input == [i \in DOMAIN results |->
                        [item |-> i, score |-> results[i].score,
                         content |-> results[i].content]]
        mmr_results == mmr_rerank(mmr_input, LAMBDA_DEFAULT, Len(results))
    IN [i \in DOMAIN mmr_results |->
          RerankedResult(mmr_results[i].item, mmr_results[i].score,
                         mmr_results[i].score * (FScale \div 100) * (100 - (i - 1)))]

\* list.sort(key=final_score, reverse=True): stable, equal keys keep their
\* order; the element at position i moves behind those with a greater key and
\* those with an equal key that stood before it
SortDesc(reranked) ==
    LET n == Len(reranked)
        Before(i) == {j \in 1..n :
                        \/ reranked[j].final_score > reranked[i].final_score
                        \/ /\ reranked[j].final_score = reranked[i].final_score
                           /\ j < i}
    IN List([p \in 1..n |-> reranked[CHOOSE i \in 1..n : Cardinality(Before(i)) = p - 1]])

\* a call's outcome: a returned value or a raised exception
Returned(v) == [kind |-> "return", val |-> v]
Raised(e) == [kind |-> "raise", exc |-> e]

\* self._strategies[strategy](results, query)
ApplyStrategy(results, query, strategy, t) ==
    CASE strategy = "keyword" -> keyword_boost(results, query)
      [] strategy = "recency" -> recency_boost(results, query, t)
      [] strategy = "hybrid" -> hybrid_boost(results, query, t)
      [] strategy = "mmr" -> mmr_strategy(results, query)

\* rerank with the sort by final score left out: a variant the ordering
\* property must reject
rerank_unsorted(results, query, strategy, top_k, t) ==
    IF results = <<>> THEN Returned(<<>>)
    ELSE IF strategy \notin Strategies THEN Raised("ValueError: Unknown strategy")
    ELSE With(List(ApplyStrategy(results, query, strategy, t)),
              LAMBDA reranked : Returned(Take(reranked, top_k)))

\* ResultReranker.rerank(results, query, strategy, top_k), called at clock t
rerank(results, query, strategy, top_k, t) ==
    IF results = <<>> THEN Returned(<<>>)
    ELSE IF strategy \notin Strategies THEN Raised("ValueError: Unknown strategy")
    ELSE With(List(ApplyStrategy(results, query, strategy, t)),
              LAMBDA reranked : Returned(Take(SortDesc(reranked), top_k)))

(***************************************************************************)
(* The texts of the model and the embedding space                          *)
(***************************************************************************)
TX_likes_dark == <<"l","i","k","e","s"," ","d","a","r","k">>
TX_prefers_dark == <<"p","r","e","f","e","r","s"," ","d","a","r","k">>
TX_dark_ui == <<"d","a","r","k"," ","u","i">>
TX_uses_rust == <<"u","s","e","s"," ","r","u","s","t">>
TX_rust_lang == <<"r","u","s","t"," ","l","a","n","g">>
TX_Rust_lang_doc == <<"R","u","s","t"," ","l","a","n","g"," ","d","o","c">>
TX_web_dev == <<"w","e","b"," ","d","e","v">>
TX_trust_web == <<"t","r","u","s","t"," ","t","h","e"," ","w","e","b">>
Q_rust_web == <<"t","h","e"," ","r","u","s","t"," ","w","e","b">>
Q_dark == <<"D","a","r","k"," ","m","o","d","e","?">>
Q_stop == <<"i","s"," ","i","t">>

\* The cosine similarity of the embeddings of two texts (embed_text / embed_query
\* followed by the index's cosine distance), symmetric, 1.0 for equal texts
SimPairs ==
    { <<{TX_likes_dark, TX_prefers_dark}, 8500>>,
      <<{TX_likes_dark, TX_dark_ui}, 8400>>,
      <<{TX_prefers_dark, TX_dark_ui}, 8600>>,
      <<{Q_dark, TX_likes_dark}, 9000>>,
      <<{Q_dark, TX_prefers_dark}, 8000>>,
      <<{Q_dark, TX_dark_ui}, 6000>>,
      <<{Q_rust_web, TX_uses_rust}, 9000>>,
      <<{Q_rust_web, TX_rust_lang}, 9000>>,
      <<{Q_rust_web, TX_Rust_lang_doc}, 8000>>,
      <<{Q_rust_web, TX_web_dev}, 8000>>,
      <<{Q_rust_web, TX_trust_web}, 7000>>,
      <<{TX_web_dev, TX_trust_web}, 9000>>,
      <<{Q_stop, TX_web_dev}, 6000>>,
      <<{Q_stop, TX_likes_dark}, 6000>> }

Cosine(a, b) ==
    IF a = b THEN One
    ELSE IF \E p \in SimPairs : p[1] = {a, b}
         THEN (CHOOSE p \in SimPairs : p[1] = {a, b})[2]
         ELSE 1000

\* QdrantClientWrapper.search: the points of the collection that pass the filter
\* and the score threshold (inclusive), best first, at most limit of them.  The
\* order among equal scores is the index's choice: every such answer is returned.
QdrantSearch(ids, score, limit, score_threshold) ==
    LET Score(id) == score[id]
        passing == {id \in ids : Score(id) >= score_threshold}
        k == Min(limit, Cardinality(passing))
    IN { hits \in [1..k -> passing] :
           /\ \A i, j \in 1..k : i < j => hits[i] # hits[j] /\ Score(hits[i]) >= Score(hits[j])
           /\ \A id \in passing \ Range(hits) : k = 0 \/ Score(id) <= Score(hits[k]) }

(***************************************************************************)
(* Memory (domain/entities/memory.py)                                      *)
(***************************************************************************)
\* default boost of Memory.boost_relevance, 0.1
BOOST_DEFAULT == 1000

\* Memory.mark_referenced, at clock (datetime.utcnow) t
Memory_mark_referenced(m, t) ==
    [m EXCEPT !.num_times_referenced = @ + 1, !.last_referenced_at = t]

\* Memory.boost_relevance
Memory_boost_relevance(m, boost) ==
    [m EXCEPT !.relevance_score = Min(One, @ + boost)]

\* Memory.to_payload: the embedding is not part of the payload
to_payload(m) ==
    [memory_id |-> m.memory_id, user_id |-> m.user_id, short_text |-> m.short_text,
     memory_type |-> m.memory_type, timestamp |-> m.timestamp,
     last_referenced_at |-> m.last_referenced_at,
     relevance_score |-> m.relevance_score,
     num_times_referenced |-> m.num_times_referenced]

\* Memory.from_payload
from_payload(payload) ==
    [memory_id |-> payload.memory_id, user_id |-> payload.user_id,
     short_text |-> payload.short_text, memory_type |-> payload.memory_type,
     timestamp |-> payload.timestamp,
     last_referenced_at |-> payload.last_referenced_at,
     relevance_score |-> payload.relevance_score,
     num_times_referenced |-> payload.num_times_referenced]

\* Memory(...) as the extraction use cases and the tests construct it
NewMemory(id, user, text, type, relevance, t) ==
    [memory_id |-> id, user_id |-> user, short_text |-> text, memory_type |-> type,
     timestamp |-> t, last_referenced_at |-> t, relevance_score |-> relevance,
     num_times_referenced |-> 0]

(***************************************************************************)
(* MemoryRepository (infrastructure/vector_store/memory_repository.py)     *)
(* idx is the memories collection: point id -> payload                     *)
(***************************************************************************)
\* a search that filters by user only, whatever memory_types asks for
search_similar_any_type(idx, query, user_id, limit, min_score, memory_types) ==
    LET matching == {id \in DOMAIN idx : idx[id].user_id = user_id}
        Score(id) == Cosine(query, idx[id].short_text)
    IN { [i \in DOMAIN hits |-> [memory |-> from_payload(idx[hits[i]]),
                                 score |-> Score(hits[i])]] :
           hits \in QdrantSearch(matching, [id \in matching |-> Score(id)], limit, min_score) }

\* MemoryRepository.search_similar: the possible answers, each a list of
\* (Memory, score) tuples; memory_types = {} stands for None
search_similar(idx, query, user_id, limit, min_score, memory_types) ==
    LET matching == {id \in DOMAIN idx :
                        /\ idx[id].user_id = user_id
                        /\ memory_types # {} => idx[id].memory_type \in memory_types}
        Score(id) == Cosine(query, idx[id].short_text)
    IN { [i \in DOMAIN hits |-> [memory |-> from_payload(idx[hits[i]]),
                                 score |-> Score(hits[i])]] :
           hits \in QdrantSearch(matching, [id \in matching |-> Score(id)], limit, min_score) }

\* MemoryRepository.mark_referenced: get_by_id, Memory.mark_referenced and
\* boost_relevance, set_payload; the collection afterwards
mark_referenced(idx, memory_id, t) ==
    IF memory_id \notin DOMAIN idx THEN idx
    ELSE LET memory == from_payload(idx[memory_id])
             updated == Memory_boost_relevance(Memory_mark_referenced(memory, t),
                                               BOOST_DEFAULT)
         IN [idx EXCEPT ![memory_id] = to_payload(updated)]

\* a bulk_create that stores nothing
bulk_create_nothing(idx, memories) == idx

\* MemoryRepository.bulk_create: every memory is embedded and upserted under
\* its id; the collection afterwards
bulk_create(idx, memories) ==
    LET ids == {memories[i].memory_id : i \in DOMAIN memories} IN
    [id \in DOMAIN idx \cup ids |->
        IF id \in ids
        THEN to_payload(memories[CHOOSE i \in DOMAIN memories : memories[i].memory_id = id])
        ELSE idx[id]]

(***************************************************************************)
(* Document and uploaded-document search                                   *)
(* (document_repository.py, uploaded_document_repository.py)               *)
(***************************************************************************)
\* the documents collection: one payload per chunk
DocCollection ==
    { [chunk_id |-> "d1", path |-> "notes/rust.md", content |-> TX_rust_lang,
       heading |-> "", last_modified |-> -400],
      [chunk_id |-> "d2", path |-> "notes/rust.md", content |-> TX_Rust_lang_doc,
       heading |-> "Doc", last_modified |-> 0],
      [chunk_id |-> "d3", path |-> "notes/web.md", content |-> TX_web_dev,
       heading |-> "", last_modified |-> -73],
      [chunk_id |-> "d4", path |-> "notes/web.md", content |-> TX_trust_web,
       heading |-> "", last_modified |-> -10] }

\* the uploaded-chunks collection
UploadedCollection ==
    { [chunk_id |-> "c1", user_id |-> "u1", content |-> TX_web_dev, document_id |-> "f1",
       filename |-> "web.pdf", category |-> "manual", chunk_index |-> 0],
      [chunk_id |-> "c2", user_id |-> "u1", content |-> TX_uses_rust, document_id |-> "f1",
       filename |-> "web.pdf", category |-> "manual", chunk_index |-> 1],
      [chunk_id |-> "c3", user_id |-> "u1", content |-> TX_dark_ui, document_id |-> "f2",
       filename |-> "ui.pdf", category |-> "manual", chunk_index |-> 0],
      [chunk_id |-> "c4", user_id |-> "u2", content |-> TX_rust_lang, document_id |-> "f3",
       filename |-> "r.pdf", category |-> "manual", chunk_index |-> 0],
      [chunk_id |-> "c5", user_id |-> "u1", content |-> TX_rust_lang, document_id |-> "f4",
       filename |-> "rust.pdf", category |-> "manual", chunk_index |-> 0],
      [chunk_id |-> "c6", user_id |-> "u1", content |-> TX_trust_web, document_id |-> "f4",
       filename |-> "rust.pdf", category |-> "manual", chunk_index |-> 1] }

ById(collection, id) == CHOOSE c \in collection : c.chunk_id = id

\* DocumentRepository.search_similar (no path filter): the possible answers, each
\* a list of IndexedDocument with its score
doc_search_similar(query, limit, min_score) ==
    LET Score(id) == Cosine(query, ById(DocCollection, id).content) IN
    { [i \in DOMAIN hits |->
         LET payload == ById(DocCollection, hits[i]) IN
         [chunk_id |-> hits[i], path |-> payload.path, content |-> payload.content,
          heading |-> payload.heading, last_modified |-> payload.last_modified,
          score |-> Score(hits[i])]] :
        hits \in QdrantSearch({c.chunk_id : c \in DocCollection}, [id \in {c.chunk_id : c \in DocCollection} |-> Score(id)], limit, min_score) }

\* UploadedDocumentRepository.search_documents (no category filter): the possible
\* answers, each a list of result dicts
search_documents(query, user_id, limit, min_score) ==
    LET mine == {c.chunk_id : c \in {u \in UploadedCollection : u.user_id = user_id}}
        Score(id) == Cosine(query, ById(UploadedCollection, id).content)
    IN { [i \in DOMAIN hits |->
            LET payload == ById(UploadedCollection, hits[i]) IN
            [chunk_id |-> hits[i], score |-> Score(hits[i]), content |-> payload.content,
             document_id |-> payload.document_id, filename |-> payload.filename,
             category |-> payload.category, chunk_index |-> payload.chunk_index]] :
           hits \in QdrantSearch(mine, [id \in mine |-> Score(id)], limit, min_score) }

(***************************************************************************)
(* RAGQueryUseCase (application/use_cases/rag_query.py)                    *)
(***************************************************************************)
\* memory_weight, document_weight, uploaded_doc_weight (tenths)
MEMORY_WEIGHT == 5
DOCUMENT_WEIGHT == 3
UPLOADED_DOC_WEIGHT == 5
\* characters of a document shown in the formatted context
PREVIEW_LEN == 500

Weighted(score, weight) == (score * weight) \div 10

ScoredItem(item, score, content, source_type) ==
    [item |-> item, score |-> score, content |-> content, source_type |-> source_type]

\* the first loop of _combine_results; reading relevance_score or short_text of
\* an object that has no such attribute raises AttributeError
RECURSIVE CombineMemories(_, _)
CombineMemories(memories, combined) ==
    IF memories = <<>> THEN Returned(combined)
    ELSE LET memory == Head(memories) IN
         IF ~HasAttr(memory, "relevance_score") \/ ~HasAttr(memory, "short_text")
         THEN Raised("AttributeError")
         ELSE CombineMemories(Tail(memories),
                  Append(combined,
                         ScoredItem(memory, Weighted(memory.relevance_score, MEMORY_WEIGHT),
                                    memory.short_text, "memory")))

\* RAGQueryUseCase._combine_results
combine_results(memories, documents, uploaded_docs) ==
    LET mems == CombineMemories(memories, <<>>) IN
    IF mems.kind = "raise" THEN mems
    ELSE Returned(
           mems.val
           \o [i \in DOMAIN documents |->
                 ScoredItem(documents[i], Weighted(documents[i].score, DOCUMENT_WEIGHT),
                            documents[i].content, "document")]
           \o [i \in DOMAIN uploaded_docs |->
                 ScoredItem(uploaded_docs[i],
                            Weighted(uploaded_docs[i].score, UPLOADED_DOC_WEIGHT),
                            uploaded_docs[i].content, "uploaded_doc")])

\* lines 335-343: ScoreableWrapper(item.score, item.content, item) for every item
RerankerInput(results) ==
    [i \in DOMAIN results |->
        [score |-> results[i].score, content |-> results[i].content]]

\* RAGQueryUseCase._rerank_results: the reranker sees ScoreableWrapper objects,
\* which carry score and content (and the wrapped item, here the position)
rerank_results(results, query, strategy, top_k, t) ==
    IF results = <<>> THEN Returned(<<>>)
    ELSE LET reranker_input == RerankerInput(results)
         IN With(rerank(reranker_input, query, strategy, top_k, t),
                 LAMBDA reranked :
                    IF reranked.kind = "raise" THEN reranked
                    ELSE Returned(List([i \in DOMAIN reranked.val |->
                                          results[reranked.val[i].original_item]])))

\* the items of one source type, in order
RECURSIVE ItemsOfType(_, _)
ItemsOfType(scored, source_type) ==
    IF scored = <<>> THEN <<>>
    ELSE (IF Head(scored).source_type = source_type THEN <<Head(scored).item>> ELSE <<>>)
         \o ItemsOfType(Tail(scored), source_type)

\* content[:500] + "..." for a long content
Preview(content) ==
    IF Len(content) > PREVIEW_LEN
    THEN SubSeq(content, 1, PREVIEW_LEN) \o <<".", ".", ".">>
    ELSE content

MEMORY_HEADER == "## User Context (from memory)"
VAULT_HEADER == "## Relevant Knowledge (from vault)"
UPLOADED_HEADER == "## Relevant Documents (uploaded)"

\* RAGQueryUseCase._format_context: the parts joined by blank lines, "" being <<>>;
\* a memory without memory_type or short_text raises AttributeError
format_context(memories, documents, uploaded_docs) ==
    IF \E i \in DOMAIN memories :
          ~HasAttr(memories[i], "memory_type") \/ ~HasAttr(memories[i], "short_text")
    THEN Raised("AttributeError")
    ELSE Returned(
      (IF memories # <<>>
       THEN <<[header |-> MEMORY_HEADER,
               lines |-> [i \in DOMAIN memories |->
                            <<memories[i].memory_type, memories[i].short_text>>]]>>
       ELSE <<>>)
      \o (IF documents # <<>>
          THEN <<[header |-> VAULT_HEADER,
                  lines |-> [i \in DOMAIN documents |->
                               <<documents[i].path, documents[i].heading,
                                 Preview(documents[i].content)>>]]>>
          ELSE <<>>)
      \o (IF uploaded_docs # <<>>
          THEN <<[header |-> UPLOADED_HEADER,
                  lines |-> [i \in DOMAIN uploaded_docs |->
                               <<uploaded_docs[i].filename, uploaded_docs[i].category,
                                 Preview(uploaded_docs[i].content)>>]]>>
          ELSE <<>>))

\* the loop "for memory in memories: await mark_referenced(memory.memory_id)":
\* the collection it leaves; memory.memory_id on an object without that
\* attribute raises AttributeError, which ends the loop (the caller catches it)
RECURSIVE MarkHits(_, _, _)
MarkHits(idx, memories, t) ==
    IF memories = <<>> THEN idx
    ELSE IF ~HasAttr(Head(memories), "memory_id") THEN idx
    ELSE MarkHits(mark_referenced(idx, Head(memories).memory_id, t), Tail(memories), t)

\* lines 226-252 of query: cut to the limits, count, format and return
FinishLimited(q, memories, documents, uploaded_docs) ==
    With(format_context(memories, documents, uploaded_docs),
         LAMBDA formatted :
            IF formatted.kind = "raise" THEN formatted
            ELSE Returned(
                   [memories |-> memories, documents |-> documents,
                    uploaded_docs |-> uploaded_docs,
                    formatted_context |-> formatted.val,
                    retrieval_stats |->
                       [q.stats EXCEPT !.memories_retrieved = Len(memories),
                                       !.documents_retrieved = Len(documents),
                                       !.uploaded_docs_retrieved = Len(uploaded_docs)]]))

\* query without the cuts of lines 227-229 that bring each list to its limit
FinishQuery_uncut(q, combined_results, t) ==
    IF combined_results # <<>> /\ q.rerank_strategy # "none"
    THEN With(rerank_results(combined_results, q.query, q.rerank_strategy,
                             q.memory_limit + q.document_limit + q.uploaded_doc_limit, t),
              LAMBDA reranked :
                 IF reranked.kind = "raise" THEN reranked
                 ELSE FinishLimited(q, ItemsOfType(reranked.val, "memory"),
                                    ItemsOfType(reranked.val, "document"),
                                    ItemsOfType(reranked.val, "uploaded_doc")))
    ELSE FinishLimited(q, q.memories, q.documents, q.uploaded_docs)

\* lines 204-252 of query: rerank, split by source, cut to the limits, format
FinishQuery(q, combined_results, t) ==
    IF combined_results # <<>> /\ q.rerank_strategy # "none"
    THEN With(rerank_results(combined_results, q.query, q.rerank_strategy,
                             q.memory_limit + q.document_limit + q.uploaded_doc_limit, t),
              LAMBDA reranked :
                 IF reranked.kind = "raise" THEN reranked
                 ELSE FinishLimited(q,
                        Take(ItemsOfType(reranked.val, "memory"), q.memory_limit),
                        Take(ItemsOfType(reranked.val, "document"), q.document_limit),
                        Take(ItemsOfType(reranked.val, "uploaded_doc"),
                             q.uploaded_doc_limit)))
    ELSE FinishLimited(q, Take(q.memories, q.memory_limit),
                       Take(q.documents, q.document_limit),
                       Take(q.uploaded_docs, q.uploaded_doc_limit))

(***************************************************************************)
(* Initial values shared by the specifications                             *)
(***************************************************************************)
Users == {"u1", "u2"}

\* the memories stored before any modelled call
StoredMemories ==
    { NewMemory("m1", "u1", TX_likes_dark, "preference", 8000, 0),
      NewMemory("m2", "u1", TX_dark_ui, "preference", 9500, 0),
      NewMemory("m3", "u1", TX_uses_rust, "fact", 5000, 0),
      NewMemory("m4", "u2", TX_likes_dark, "preference", 8000, 0) }

IndexOf(memories) ==
    [id \in {m.memory_id : m \in memories} |->
        to_payload(CHOOSE m \in memories : m.memory_id = id)]

RagIdle == [pc |-> "idle"]
ExtIdle == [pc |-> "idle"]
RrIdle == [op |-> "none"]
\* no Memory object under direct calls, no repository call in progress, no
\* chunking call made
MemIdle == [op |-> "none"]
NoTasks == <<>>
ChIdle == [op |-> "none"]
\* an EmbeddingService that is not modelled
EmbIdle == [op |-> "none"]

\* the points of the documents collection before any modelled indexing
DocsEmpty == {}

\* the variables of the other specifications, at rest
OthersIdle ==
    /\ mem = MemIdle
    /\ tasks = NoTasks
    /\ docs = DocsEmpty
    /\ ch = ChIdle
    /\ emb = EmbIdle

(***************************************************************************)
(* Spec: one RAGQueryUseCase.query call against the stored memories,       *)
(* documents and uploaded chunks, step by step at its awaits               *)
(***************************************************************************)
\* largest per-source limit a caller passes, latest start of a query (days)
MaxLimit == 2
MaxNow == 1

NoUser == ""
QueryTexts == {Q_rust_web, Q_dark}
MinScores == {5000, 8500}
QueryStrategies == Strategies \cup {"none", "bogus"}

QueryInputs ==
    [query : QueryTexts, user_id : {"u1", NoUser},
     include_memories : BOOLEAN, include_documents : BOOLEAN,
     include_uploaded_docs : BOOLEAN,
     memory_limit : 1..MaxLimit, document_limit : 1..MaxLimit,
     uploaded_doc_limit : 1..MaxLimit,
     min_score : MinScores, rerank_strategy : QueryStrategies]

Init ==
    /\ now = 0
    /\ index = IndexOf(StoredMemories)
    /\ rag = RagIdle
    /\ ext = ExtIdle
    /\ rr = RrIdle
    /\ OthersIdle

\* time passes between calls
Tick ==
    /\ rag.pc = "idle" /\ ext.pc = "idle"
    /\ now < MaxNow
    /\ now' = now + 1
    /\ UNCHANGED <<index, rag, ext, rr, mem, tasks, docs, ch, emb>>

\* query(...) is called: lines 122-134
QueryStart(in) ==
    /\ rag.pc = "idle"
    /\ rag' = in @@
         [pc |-> "search_memories",
          memories |-> <<>>, documents |-> <<>>, uploaded_docs |-> <<>>,
          stats |-> [memories_searched |-> 0, documents_searched |-> 0,
                     uploaded_docs_searched |-> 0, memories_retrieved |-> 0,
                     documents_retrieved |-> 0, uploaded_docs_retrieved |-> 0,
                     rerank_strategy |-> in.rerank_strategy],
          \* what each search did (skipped, failed, ok) and returned, the
          \* collection and the clock at the call: kept for the properties
          searches |-> [memory |-> "skipped", document |-> "skipped",
                        uploaded |-> "skipped"],
          hits |-> [memory |-> <<>>, document |-> <<>>, uploaded |-> <<>>],
          index0 |-> index, started |-> now]
    /\ UNCHANGED <<now, index, ext, rr, mem, tasks, docs, ch, emb>>

\* a search's answer: one of the lists the index can return, or a failure
Answers(results) == {Raised("SourceUnavailableError")} \cup {Returned(r) : r \in results}

\* lines 136-152: the memory search and the mark_referenced loop, inside try
SearchMemories ==
    /\ rag.pc = "search_memories"
    /\ IF rag.include_memories /\ rag.user_id # NoUser
       THEN \E answer \in Answers(search_similar(index, rag.query, rag.user_id,
                                                 rag.memory_limit * 2, rag.min_score, {})) :
              IF answer.kind = "raise"
              THEN /\ rag' = [rag EXCEPT !.pc = "search_documents",
                                         !.searches.memory = "failed"]
                   /\ index' = index
              ELSE /\ rag' = [rag EXCEPT !.pc = "search_documents",
                                         !.memories = answer.val,
                                         !.stats.memories_searched = Len(answer.val),
                                         !.searches.memory = "ok",
                                         !.hits.memory = answer.val]
                   /\ index' = MarkHits(index, answer.val, now)
       ELSE /\ rag' = [rag EXCEPT !.pc = "search_documents"]
            /\ index' = index
    /\ UNCHANGED <<now, ext, rr, mem, tasks, docs, ch, emb>>

\* lines 154-166: the vault document search, inside try
SearchDocuments ==
    /\ rag.pc = "search_documents"
    /\ IF rag.include_documents
       THEN \E answer \in Answers(doc_search_similar(rag.query, rag.document_limit * 2,
                                                     rag.min_score)) :
              IF answer.kind = "raise"
              THEN rag' = [rag EXCEPT !.pc = "search_uploaded",
                                      !.searches.document = "failed"]
              ELSE rag' = [rag EXCEPT !.pc = "search_uploaded",
                                      !.documents = answer.val,
                                      !.stats.documents_searched = Len(answer.val),
                                      !.searches.document = "ok",
                                      !.hits.document = answer.val]
       ELSE rag' = [rag EXCEPT !.pc = "search_uploaded"]
    /\ UNCHANGED <<now, index, ext, rr, mem, tasks, docs, ch, emb>>

\* lines 168-192: the uploaded document search and the conversion of its result
\* dicts to UploadedDocChunk (same fields), inside try
SearchUploaded ==
    /\ rag.pc = "search_uploaded"
    /\ IF rag.include_uploaded_docs /\ rag.user_id # NoUser
       THEN \E answer \in Answers(search_documents(rag.query, rag.user_id,
                                                   rag.uploaded_doc_limit * 2,
                                                   rag.min_score)) :
              IF answer.kind = "raise"
              THEN rag' = [rag EXCEPT !.pc = "combine",
                                      !.searches.uploaded = "failed"]
              ELSE rag' = [rag EXCEPT !.pc = "combine",
                                      !.uploaded_docs = answer.val,
                                      !.stats.uploaded_docs_searched = Len(answer.val),
                                      !.searches.uploaded = "ok",
                                      !.hits.uploaded = answer.val]
       ELSE rag' = [rag EXCEPT !.pc = "combine"]
    /\ UNCHANGED <<now, index, ext, rr, mem, tasks, docs, ch, emb>>

\* lines 194-252: combine, rerank, cut, format and return, or raise
QueryFinish ==
    /\ rag.pc = "combine"
    /\ \E combined \in {combine_results(rag.memories, rag.documents, rag.uploaded_docs)} :
       \E outcome \in {IF combined.kind = "raise" THEN combined
                        ELSE FinishQuery(rag, combined.val, now)} :
          rag' = [pc |-> "done", combined |-> combined, outcome |-> outcome,
                  \* what self._reranker.rerank answered, kept for the properties
                  reranked |-> IF combined.kind = "return" /\ combined.val # <<>>
                                  /\ rag.rerank_strategy # "none"
                               THEN rerank(RerankerInput(combined.val), rag.query,
                                           rag.rerank_strategy,
                                           rag.memory_limit + rag.document_limit
                                             + rag.uploaded_doc_limit, now)
                               ELSE Returned(<<>>)] @@ rag
    /\ UNCHANGED <<now, index, ext, rr, mem, tasks, docs, ch, emb>>

Next ==
    \/ Tick
    \/ \E in \in QueryInputs : QueryStart(in)
    \/ SearchMemories
    \/ SearchDocuments
    \/ SearchUploaded
    \/ QueryFinish

Spec == Init /\ [][Next]_vars

(***************************************************************************)
(* SpecRerank: the reranker functions called directly, as the unit tests   *)
(* do, on every input of a bounded set                                     *)
(***************************************************************************)
\* longest candidate list, largest top_k
MaxCands == 3
MaxTopK == 3

\* candidates: objects with score and content, some with last_modified or
\* timestamp (the clock of SpecRerank stands at day 0)
RrPool ==
    { [score |-> 9000, content |-> TX_rust_lang, timestamp |-> -400],
      [score |-> 8500, content |-> TX_Rust_lang_doc, last_modified |-> 0],
      [score |-> 8000, content |-> TX_web_dev],
      [score |-> 8000, content |-> TX_trust_web, last_modified |-> -73] }

RrQueries == {Q_rust_web, Q_stop}
RrStrategies == Strategies \cup {"bogus"}
RrLambdas == {5, LAMBDA_DEFAULT}

SeqsUpTo(S, n) == UNION {[1..k -> S] : k \in 0..n}

RrInputs ==
    [results : SeqsUpTo(RrPool, MaxCands), query : RrQueries,
     strategy : RrStrategies, top_k : 0..MaxTopK, lambda_param : RrLambdas]

\* arguments of a direct _combine_results call: the memory search's answer for
\* user u1, passed on as it is (Memory, score tuples) or as the Memory objects
\* alone (as the unit test builds them), and the document searches' answers
CombineInputs ==
    UNION { [similar : search_similar(IndexOf(StoredMemories), q, "u1", 2, 5000, {}),
             pass : {"tuples", "memories"},
             documents : doc_search_similar(q, 1, 5000),
             uploaded_docs : search_documents(q, "u1", 1, 5000)] :
            q \in {Q_rust_web, Q_dark, Q_stop} }

RrInit ==
    /\ now = 0
    /\ index = IndexOf(StoredMemories)
    /\ rag = RagIdle
    /\ ext = ExtIdle
    /\ \E in \in RrInputs \cup CombineInputs : rr = [op |-> "none", in |-> in]
    /\ OthersIdle

\* reranker.rerank(results, query, strategy=..., top_k=...)
CallRerank ==
    /\ rr.op = "none" /\ HasAttr(rr.in, "results")
    /\ rr' = [rr EXCEPT !.op = "rerank"] @@
             [out |-> rerank(rr.in.results, rr.in.query, rr.in.strategy, rr.in.top_k, now)]
    /\ UNCHANGED <<now, index, rag, ext, mem, tasks, docs, ch, emb>>

\* mmr_rerank(results, lambda_param=..., top_k=...) on (item, score, content) tuples
CallMmrRerank ==
    /\ rr.op = "none" /\ HasAttr(rr.in, "results")
    /\ LET results == [i \in DOMAIN rr.in.results |->
                          [item |-> i, score |-> rr.in.results[i].score,
                           content |-> rr.in.results[i].content]]
       IN rr' = [rr EXCEPT !.op = "mmr_rerank"] @@
                [out |-> Returned(mmr_rerank(results, rr.in.lambda_param, rr.in.top_k))]
    /\ UNCHANGED <<now, index, rag, ext, mem, tasks, docs, ch, emb>>

\* rag._combine_results(memories=..., documents=..., uploaded_docs=...)
CallCombineResults ==
    /\ rr.op = "none" /\ HasAttr(rr.in, "similar")
    /\ LET memories == IF rr.in.pass = "tuples" THEN rr.in.similar
                       ELSE [i \in DOMAIN rr.in.similar |-> rr.in.similar[i].memory]
       IN rr' = [rr EXCEPT !.op = "combine_results"] @@
                [out |-> combine_results(memories, rr.in.documents, rr.in.uploaded_docs)]
    /\ UNCHANGED <<now, index, rag, ext, mem, tasks, docs, ch, emb>>

RrNext == CallRerank \/ CallMmrRerank \/ CallCombineResults

SpecRerank == RrInit /\ [][RrNext]_vars

(***************************************************************************)
(* Properties of the reranker, checked under SpecRerank                    *)
(***************************************************************************)
RrCalled(op) == rr.op = op
RrItems(val) == [i \in DOMAIN val |-> val[i].original_item]
MmrItems(val) == [i \in DOMAIN val |-> val[i].item]
NoRepeat(items) == \A i, j \in DOMAIN items : i # j => items[i] # items[j]

\* C4: rerank raises the unknown-strategy error for every strategy name outside
\* {keyword, recency, hybrid, mmr}, whatever the candidate list, the empty list
\* included; it never returns a result for such a name.
C4_UnknownStrategyAlwaysRaises ==
    (RrCalled("rerank") /\ rr.in.strategy \notin {"keyword", "recency", "hybrid", "mmr"})
        => rr.out.kind = "raise"

\* The final score each candidate gets from a boosting strategy: original score
\* plus the strategy's boosts (position i of the input)
BoostedScore(in, i, t) ==
    LET r == in.results[i]
        kw == Boost(keyword_match_score(extract_keywords(in.query), r.content), KEYWORD_WEIGHT)
        rec(w) == Boost(recency_score(TimestampOf(r, t), MAX_AGE_DAYS, t), w)
    IN r.score * FScale +
         CASE in.strategy = "keyword" -> kw
           [] in.strategy = "recency" -> rec(RECENCY_WEIGHT)
           [] in.strategy = "hybrid" -> kw + rec(HYBRID_RECENCY_WEIGHT)

MmrInput(results) ==
    [i \in DOMAIN results |->
        [item |-> i, score |-> results[i].score, content |-> results[i].content]]

TakenBefore(results, items, p) == [i \in 1..(p - 1) |-> MmrInput(results)[items[i]]]

IsMmrSelectionOrder(results, items, lambda_param) ==
    \A p \in DOMAIN items :
        \A c \in (1..Len(results)) \ {items[i] : i \in 1..(p - 1)} :
            MmrScore(TakenBefore(results, items, p), MmrInput(results)[c], lambda_param)
              <= MmrScore(TakenBefore(results, items, p), MmrInput(results)[items[p]],
                          lambda_param)

\* C7: rerank with strategy "mmr" returns the candidates in MMR selection order
\* (lambda = 0.7): the first is the highest-scored candidate and each following
\* one maximizes the MMR score against those already selected.
C7_MmrStrategyReturnsSelectionOrder ==
    (RrCalled("rerank") /\ rr.in.strategy = "mmr")
        => /\ rr.out.kind = "return"
           /\ NoRepeat(RrItems(rr.out.val))
           /\ IsMmrSelectionOrder(rr.in.results, RrItems(rr.out.val), LAMBDA_DEFAULT)

\* C8: mmr_rerank(results, top_k), top_k >= 0, returns exactly
\* min(top_k, len(results)) items, each input position at most once (so a
\* permutation when top_k = len(results)); at a selection step the candidate
\* selected has the greatest MMR score of those remaining, and among several with
\* that score it is the earliest in input order.
C8_MmrCountPermutationStableTies ==
    RrCalled("mmr_rerank")
        => LET items == MmrItems(rr.out.val)
               n == Len(rr.in.results)
               lam == rr.in.lambda_param
           IN /\ Len(items) = Min(rr.in.top_k, n)
              /\ NoRepeat(items)
              /\ \A i \in DOMAIN items : items[i] \in 1..n
              /\ rr.in.top_k = n => Range(items) = 1..n
              /\ n > rr.in.top_k =>
                    \A p \in DOMAIN items :
                       \A c \in (1..n) \ {items[i] : i \in 1..p} :
                          LET taken == TakenBefore(rr.in.results, items, p)
                              mine == MmrScore(taken, MmrInput(rr.in.results)[items[p]], lam)
                              other == MmrScore(taken, MmrInput(rr.in.results)[c], lam)
                          IN other < mine \/ (other = mine /\ items[p] < c)

\* C8 witness: a selection of two among three candidates of which the first two
\* are equal (a tie at the first step); the first was taken first
C8_Witness ==
    /\ RrCalled("mmr_rerank")
    /\ Len(rr.in.results) = 3 /\ rr.in.top_k = 2
    /\ rr.in.results[1] = rr.in.results[2]
    /\ MmrItems(rr.out.val)[1] = 1
    /\ Len(rr.out.val) = 2

\* C9: in _combine_results the weighted score of every candidate is the raw
\* similarity its source search returned times the source's weight (memory 0.5,
\* vault document 0.3, uploaded document 0.5), memory candidates included.
C9_WeightedScoreIsSimilarityTimesWeight ==
    RrCalled("combine_results") =>
        /\ rr.out.kind = "return"
        /\ LET m == Len(rr.in.similar)
               d == Len(rr.in.documents)
           IN /\ \A i \in DOMAIN rr.in.similar :
                    rr.out.val[i].score = Weighted(rr.in.similar[i].score, MEMORY_WEIGHT)
              /\ \A i \in DOMAIN rr.in.documents :
                    rr.out.val[m + i].score =
                        Weighted(rr.in.documents[i].score, DOCUMENT_WEIGHT)
              /\ \A i \in DOMAIN rr.in.uploaded_docs :
                    rr.out.val[m + d + i].score =
                        Weighted(rr.in.uploaded_docs[i].score, UPLOADED_DOC_WEIGHT)

(***************************************************************************)
(* Properties of query, checked under Spec                                 *)
(***************************************************************************)
QueryDone == rag.pc = "done"
MemorySearched == rag.pc \in {"search_documents", "search_uploaded", "combine", "done"}
HitMemories == {rag.hits.memory[i].memory : i \in DOMAIN rag.hits.memory}

\* C1: a query with a user_id and only include_memories set, whose memory search
\* returns k hits, 1 <= k <= memory_limit, returns normally with exactly those k
\* memories, and its formatted context has the memory section header.
C1_MemoryOnlyQueryReturnsHits ==
    (/\ QueryDone
     /\ rag.user_id # NoUser
     /\ rag.include_memories /\ ~rag.include_documents /\ ~rag.include_uploaded_docs
     /\ rag.searches.memory = "ok"
     /\ Len(rag.hits.memory) \in 1..rag.memory_limit)
        => /\ rag.outcome.kind = "return"
           /\ Len(rag.outcome.val.memories) = Len(rag.hits.memory)
           /\ \/ Range(rag.outcome.val.memories) = HitMemories
              \/ Range(rag.outcome.val.memories) = Range(rag.hits.memory)
           /\ \E i \in DOMAIN rag.outcome.val.formatted_context :
                 rag.outcome.val.formatted_context[i].header = MEMORY_HEADER

\* C2: once the memory search of a query has returned hits, every hit memory's
\* stored reference count is its value before the query plus 1 and its
\* last_referenced_at is the time of the query.
C2_HitsMarkedReferencedOnce ==
    (MemorySearched /\ rag.searches.memory = "ok")
        => \A m \in HitMemories :
              /\ index[m.memory_id].num_times_referenced =
                    rag.index0[m.memory_id].num_times_referenced + 1
              /\ index[m.memory_id].last_referenced_at = rag.started

SearchFailed(source) == rag.searches[source] = "failed"
SearchSources == {"memory", "document", "uploaded"}

\* C3: when the search of a source fails, a query (with a strategy the reranker
\* knows, or none) still returns, with no more than what the other sources found;
\* when every search that ran failed, it returns an empty formatted context and
\* all searched and retrieved counts are 0.
C3_SourceFailureDegrades ==
    (/\ QueryDone
     /\ \E s \in SearchSources : SearchFailed(s)
     /\ rag.rerank_strategy \in Strategies \cup {"none"})
        => /\ rag.outcome.kind = "return"
           /\ SearchFailed("memory") => rag.outcome.val.memories = <<>>
           /\ SearchFailed("document") => rag.outcome.val.documents = <<>>
           /\ SearchFailed("uploaded") => rag.outcome.val.uploaded_docs = <<>>
           /\ Range(rag.outcome.val.documents) \subseteq Range(rag.hits.document)
           /\ Range(rag.outcome.val.uploaded_docs) \subseteq Range(rag.hits.uploaded)
           /\ (\A s \in SearchSources : rag.searches[s] \in {"failed", "skipped"})
                => /\ rag.outcome.val.formatted_context = <<>>
                   /\ \A k \in DOMAIN rag.outcome.val.retrieval_stats \ {"rerank_strategy"} :
                         rag.outcome.val.retrieval_stats[k] = 0

\* C5: a query with a strategy name the reranker does not know raises the
\* unknown-strategy error, and the index is as it was before the call.
C5_UnknownStrategyRaisesNoEffect ==
    (QueryDone /\ rag.rerank_strategy \notin Strategies \cup {"none"})
        => /\ rag.outcome.kind = "raise"
           /\ rag.outcome.exc = "ValueError: Unknown strategy"
           /\ index = rag.index0

(***************************************************************************)
(* SpecExtract: MemoryExtractionUseCase.extract_from_conversation from the *)
(* point where the candidate memories are built: _filter_duplicates, one   *)
(* candidate per step, then bulk_create of what is left                    *)
(* (memory_extraction.py; vault_memory_extraction.py has the same loop)    *)
(***************************************************************************)
\* min_score of the duplicate search, 0.85
DUP_MIN_SCORE == 8500

\* most candidates in one extraction
MaxBatch == 2

\* what the LLM extracted: (id, text, type) of the new Memory objects
CandidatePool ==
    { <<"n1", TX_prefers_dark, "preference">>,
      <<"n2", TX_likes_dark, "fact">>,
      <<"n3", TX_uses_rust, "fact">>,
      <<"n4", TX_dark_ui, "preference">>,
      <<"n5", TX_web_dev, "task">>,
      <<"n6", TX_trust_web, "task">> }

CandidateLists ==
    {l \in SeqsUpTo(CandidatePool, MaxBatch) :
        \A i, j \in DOMAIN l : i # j => l[i] # l[j]}

\* extract_from_conversation reaches line 155 with the Memory objects built,
\* their relevance_score the default confidence 0.8
ExtractStart(user_id, cands) ==
    /\ ext.pc = "idle" /\ rag.pc = "idle"
    /\ ext' = [pc |-> "filter", user_id |-> user_id,
               memories |-> [i \in DOMAIN cands |->
                               NewMemory(cands[i][1], user_id, cands[i][2], cands[i][3],
                                         8000, now)],
               i |-> 1, filtered |-> <<>>]
    /\ UNCHANGED <<now, index, rag, rr, mem, tasks, docs, ch, emb>>

\* one iteration of the loop of _filter_duplicates
FilterDuplicate ==
    /\ ext.pc = "filter" /\ ext.i <= Len(ext.memories)
    /\ LET memory == ext.memories[ext.i] IN
       \E similar \in search_similar(index, memory.short_text, ext.user_id, 1,
                                     DUP_MIN_SCORE, {memory.memory_type}) :
          IF similar # <<>>
          THEN /\ index' = mark_referenced(index, similar[1].memory.memory_id, now)
               /\ ext' = [ext EXCEPT !.i = @ + 1]
          ELSE /\ index' = index
               /\ ext' = [ext EXCEPT !.i = @ + 1, !.filtered = Append(@, memory)]
    /\ UNCHANGED <<now, rag, rr, mem, tasks, docs, ch, emb>>

\* the loop is over: lines 157-172, nothing to store or bulk_create
StoreMemories ==
    /\ ext.pc = "filter" /\ ext.i > Len(ext.memories)
    /\ IF ext.filtered = <<>>
       THEN /\ ext' = [ext EXCEPT !.pc = "done"] @@ [stored |-> <<>>]
            /\ index' = index
       ELSE /\ ext' = [ext EXCEPT !.pc = "done"] @@ [stored |-> ext.filtered]
            /\ index' = bulk_create(index, ext.filtered)
    /\ UNCHANGED <<now, rag, rr, mem, tasks, docs, ch, emb>>

ExtNext ==
    \/ Tick
    \/ \E user_id \in Users, cands \in CandidateLists : ExtractStart(user_id, cands)
    \/ FilterDuplicate
    \/ StoreMemories

SpecExtract == Init /\ [][ExtNext]_vars

\* the stored memories of the user and type of candidate c that are similar
\* enough to it
Duplicates(idx, user_id, c) ==
    {id \in DOMAIN idx :
        /\ idx[id].user_id = user_id
        /\ idx[id].memory_type = c.memory_type
        /\ Cosine(c.short_text, idx[id].short_text) >= DUP_MIN_SCORE}

\* the payload of a memory after one mark_referenced with the default boost
Boosted(payload) ==
    [payload EXCEPT !.num_times_referenced = @ + 1,
                    !.relevance_score = Min(One, @ + BOOST_DEFAULT)]

\* a step of the loop of _filter_duplicates
FilterStep ==
    /\ ext.pc = "filter" /\ ext'.pc = "filter"
    /\ ext'.i = ext.i + 1

\* idx with the last_referenced_at of memory id left out of the comparison
Forget(idx, id) == [idx EXCEPT ![id].last_referenced_at = 0]

\* C10: for each candidate of _filter_duplicates, if the index holds a memory of
\* the same user and type with similarity >= 0.85, the candidate is not kept,
\* one such memory's reference count grows by exactly 1 and its relevance_score
\* becomes min(1.0, old + 0.1), and no other memory changes; otherwise the
\* candidate is kept and the index is not modified.  A candidate not kept is not
\* written to the index, a kept one is.
C10_DuplicateSuppressed ==
    /\ [][FilterStep =>
            LET c == ext.memories[ext.i]
                dups == Duplicates(index, ext.user_id, c)
            IN IF dups # {}
               THEN /\ ext'.filtered = ext.filtered
                    /\ \E id \in dups :
                          Forget(index', id) = Forget([index EXCEPT ![id] = Boosted(@)], id)
               ELSE /\ ext'.filtered = Append(ext.filtered, c)
                    /\ index' = index]_vars
    /\ [](ext.pc = "done" =>
            /\ ext.stored = ext.filtered
            /\ \A i \in DOMAIN ext.memories :
                  ext.memories[i].memory_id \in DOMAIN index
                      <=> ext.memories[i] \in Range(ext.filtered))

\* a candidate was dropped as a duplicate of a memory whose relevance_score the
\* boost capped at 1.0, another was kept, and the extraction has stored the rest
C10_Witness ==
    /\ ext.pc = "done"
    /\ Len(ext.memories) = 2 /\ Len(ext.filtered) = 1
    /\ \E id \in DOMAIN index :
          /\ index[id].num_times_referenced = 1
          /\ index[id].relevance_score = One
          /\ id \notin {ext.memories[i].memory_id : i \in DOMAIN ext.memories}

\* C11: an extraction run executed alone stores at most one memory per fact: of
\* two candidates of the run with the same type and similarity >= 0.85 to each
\* other, bulk_create does not store both.
C11_AtMostOneWritePerFact ==
    ext.pc = "done" =>
        \A i, j \in DOMAIN ext.memories :
            (/\ i # j
             /\ ext.memories[i].memory_type = ext.memories[j].memory_type
             /\ Cosine(ext.memories[i].short_text, ext.memories[j].short_text)
                    >= DUP_MIN_SCORE)
                => ~(/\ ext.memories[i].memory_id \in DOMAIN index
                     /\ ext.memories[j].memory_id \in DOMAIN index)

(***************************************************************************)
(* Memory: decay, staleness, consolidation (domain/entities/memory.py)     *)
(***************************************************************************)
MemoryTypes == {"preference", "fact", "task", "goal", "profile"}

\* default decay_factor 0.95 (factors are in hundredths), default days_threshold
DECAY_DEFAULT == 95
DAYS_DEFAULT == 90
\* should_consolidate: num_times_referenced >= 5, relevance_score > 0.7
KEEP_MIN_REFERENCED == 5
KEEP_RELEVANCE == 7000

\* Memory.decay_relevance; the product is rounded down to 1/One
Memory_decay_relevance(m, decay_factor) ==
    [m EXCEPT !.relevance_score = Max(0, (@ * decay_factor) \div 100)]

\* a staleness test that counts the threshold day itself as stale
Memory_is_stale_inclusive(m, days_threshold, t) ==
    m.last_referenced_at <= t - days_threshold

\* Memory.is_stale, at clock (datetime.utcnow) t
Memory_is_stale(m, days_threshold, t) ==
    LET threshold == t - days_threshold
    IN m.last_referenced_at < threshold

\* a consolidation test that keeps relevance_score 0.7 itself
Memory_should_consolidate_from_07(m) ==
    \/ m.memory_type \in {"preference", "profile"}
    \/ m.num_times_referenced >= KEEP_MIN_REFERENCED
    \/ m.relevance_score >= KEEP_RELEVANCE

\* Memory.should_consolidate
Memory_should_consolidate(m) ==
    IF m.memory_type \in {"preference", "profile"} THEN TRUE
    ELSE IF m.num_times_referenced >= KEEP_MIN_REFERENCED THEN TRUE
    ELSE IF m.relevance_score > KEEP_RELEVANCE THEN TRUE
    ELSE FALSE

(***************************************************************************)
(* SpecMemory: one Memory object under direct method calls, as the unit    *)
(* tests of the entity make them                                           *)
(***************************************************************************)
\* most method calls on the object
MaxCalls == 3

\* Memory(relevance_score=..., num_times_referenced=...) as pydantic accepts it
MemRelevances == {0, 3000, KEEP_RELEVANCE, KEEP_RELEVANCE + 1, 9500, One}
MemReferenced == {0, KEEP_MIN_REFERENCED - 1, KEEP_MIN_REFERENCED}
\* boost amounts and decay factors a caller passes
BoostAmounts == {BOOST_DEFAULT, 2000, 0, -5000}
DecayFactors == {DECAY_DEFAULT, 50, 0, 150, -100}

MemInit ==
    /\ now = 0
    /\ index = IndexOf(StoredMemories)
    /\ rag = RagIdle
    /\ ext = ExtIdle
    /\ rr = RrIdle
    /\ tasks = NoTasks
    /\ docs = DocsEmpty
    /\ ch = ChIdle
    /\ emb = EmbIdle
    /\ \E type \in MemoryTypes, relevance \in MemRelevances, n \in MemReferenced :
          mem = [op |-> "new", calls |-> 0,
                 obj |-> [NewMemory("t1", "u1", TX_uses_rust, type, relevance, 0)
                            EXCEPT !.num_times_referenced = n]]

\* the call op on the object leaves it as obj and returns result; before is
\* the object as the call found it
MemCall(op, arg, obj, result) ==
    /\ mem.calls < MaxCalls
    /\ mem' = [op |-> op, calls |-> mem.calls + 1, arg |-> arg, before |-> mem.obj,
               obj |-> obj, result |-> result]
    /\ UNCHANGED <<now, index, rag, ext, rr, tasks, docs, ch, emb>>

None == "None"

CallBoostRelevance(boost) ==
    MemCall("boost_relevance", boost, Memory_boost_relevance(mem.obj, boost), None)

CallDecayRelevance(decay_factor) ==
    MemCall("decay_relevance", decay_factor,
            Memory_decay_relevance(mem.obj, decay_factor), None)

CallMarkReferenced ==
    MemCall("mark_referenced", None, Memory_mark_referenced(mem.obj, now), None)

CallShouldConsolidate ==
    MemCall("should_consolidate", None, mem.obj, Memory_should_consolidate(mem.obj))

MemNext ==
    \/ \E boost \in BoostAmounts : CallBoostRelevance(boost)
    \/ \E decay_factor \in DecayFactors : CallDecayRelevance(decay_factor)
    \/ CallMarkReferenced
    \/ CallShouldConsolidate

SpecMemory == MemInit /\ [][MemNext]_vars

\* C13: whatever boost amounts and decay factors the caller passes, the
\* relevance_score of a Memory created in [0,1] stays in [0,1], and a boost of a
\* memory at 1.0 leaves it at 1.0.
C13_RelevanceStaysClamped ==
    /\ mem.obj.relevance_score >= 0
    /\ mem.obj.relevance_score <= One
    /\ (mem.op = "boost_relevance" /\ mem.before.relevance_score = One)
          => mem.obj.relevance_score = One

\* C14: should_consolidate returns true exactly when the type is preference or
\* profile, or the reference count is >= 5, or relevance_score > 0.7; so it is
\* true for every preference and profile, and false for another type with a
\* reference count < 5 and relevance_score exactly 0.7.
C14_ShouldConsolidateIff ==
    mem.op = "should_consolidate" =>
        /\ mem.result = TRUE <=>
              \/ mem.obj.memory_type \in {"preference", "profile"}
              \/ mem.obj.num_times_referenced >= 5
              \/ mem.obj.relevance_score > 7000
        /\ mem.obj.memory_type \in {"preference", "profile"} => mem.result = TRUE
        /\ (/\ mem.obj.memory_type \in {"fact", "task", "goal"}
            /\ mem.obj.num_times_referenced < 5
            /\ mem.obj.relevance_score = 7000) => mem.result = FALSE

\* should_consolidate answered false for a fact referenced 4 times whose
\* relevance_score is exactly 0.7
C14_Witness ==
    /\ mem.op = "should_consolidate"
    /\ mem.obj.memory_type = "fact"
    /\ mem.obj.num_times_referenced = 4
    /\ mem.obj.relevance_score = 7000
    /\ mem.result = FALSE

(***************************************************************************)
(* SpecStale: one MemoryRepository.delete_stale call, step by step         *)
(* (memory_repository.py:330-364)                                          *)
(***************************************************************************)
\* get_by_user scrolls with limit=100
SCROLL_LIMIT == 100

\* a memory stored earlier: referenced n times, last at day last
StoredAt(id, user, type, relevance, n, last) ==
    [NewMemory(id, user, TX_uses_rust, type, relevance, last)
        EXCEPT !.num_times_referenced = n]

\* the memories collection before delete_stale; day 0 is the first clock value
AgedMemories ==
    { StoredAt("s1", "u1", "fact", 3000, 2, -(DAYS_DEFAULT + 1)),
      StoredAt("s2", "u1", "fact", 3000, 0, -DAYS_DEFAULT),
      StoredAt("s3", "u1", "preference", 1000, 0, -200),
      StoredAt("s4", "u1", "task", 1000, KEEP_MIN_REFERENCED, -200),
      StoredAt("s5", "u1", "goal", KEEP_RELEVANCE + 1, 0, -200),
      StoredAt("s6", "u1", "goal", KEEP_RELEVANCE, KEEP_MIN_REFERENCED - 1, -200),
      StoredAt("s7", "u2", "fact", 1000, 0, -200),
      StoredAt("s8", "u2", "profile", 0, 0, -30) }

\* the order in which scroll returns points: by point id
ScrollOrder == <<"s1", "s2", "s3", "s4", "s5", "s6", "s7", "s8">>

DayThresholds == {DAYS_DEFAULT, 30}

\* MemoryRepository.get_by_user without memory_types
get_by_user(idx, user_id) ==
    LET Matches(id) == id \in DOMAIN idx /\ idx[id].user_id = user_id
        results == Take(SelectSeq(ScrollOrder, Matches), SCROLL_LIMIT)
    IN [i \in DOMAIN results |-> from_payload(idx[results[i]])]

\* MemoryRepository.delete / delete_point: the collection afterwards
delete(idx, memory_id) ==
    [id \in DOMAIN idx \ {memory_id} |-> idx[id]]

StaleInit ==
    /\ now = 0
    /\ index = IndexOf(AgedMemories)
    /\ rag = RagIdle
    /\ ext = ExtIdle
    /\ rr = RrIdle
    /\ mem = MemIdle
    /\ tasks = NoTasks
    /\ docs = DocsEmpty
    /\ ch = ChIdle
    /\ emb = EmbIdle

\* delete_stale(user_id, days_threshold) up to the return of get_by_user
DeleteStaleStart(user_id, days_threshold) ==
    /\ tasks = NoTasks
    /\ tasks' = << [op |-> "delete_stale", pc |-> "loop", user_id |-> user_id,
                    days_threshold |-> days_threshold,
                    memories |-> get_by_user(index, user_id),
                    i |-> 1, deleted |-> 0] >>
    /\ UNCHANGED <<now, index, rag, ext, rr, mem, docs, ch, emb>>

\* one iteration of the for loop; delete_point answers False, deleting
\* nothing, when the index rejects the request
DeleteStaleStep ==
    /\ tasks # NoTasks
    /\ tasks[1].op = "delete_stale" /\ tasks[1].pc = "loop"
    /\ tasks[1].i <= Len(tasks[1].memories)
    /\ LET t == tasks[1]
           memory == t.memories[t.i]
       IN IF Memory_is_stale(memory, t.days_threshold, now)
             /\ ~Memory_should_consolidate(memory)
          THEN /\ \E ok \in BOOLEAN :
                    index' = IF ok THEN delete(index, memory.memory_id) ELSE index
               /\ tasks' = << [t EXCEPT !.i = @ + 1, !.deleted = @ + 1] >>
          ELSE /\ index' = index
               /\ tasks' = << [t EXCEPT !.i = @ + 1] >>
    /\ UNCHANGED <<now, rag, ext, rr, mem, docs, ch, emb>>

\* the loop is over: return deleted
DeleteStaleFinish ==
    /\ tasks # NoTasks
    /\ tasks[1].op = "delete_stale" /\ tasks[1].pc = "loop"
    /\ tasks[1].i > Len(tasks[1].memories)
    /\ tasks' = << [tasks[1] EXCEPT !.pc = "done"] >>
    /\ UNCHANGED <<now, index, rag, ext, rr, mem, docs, ch, emb>>

StaleNext ==
    \/ Tick
    \/ \E user_id \in Users, days_threshold \in DayThresholds :
          DeleteStaleStart(user_id, days_threshold)
    \/ DeleteStaleStep
    \/ DeleteStaleFinish

SpecStale == StaleInit /\ [][StaleNext]_vars

\* C12: delete_stale deletes a memory only if, when it is deleted, it is stale
\* (now - last_referenced_at > days_threshold) and should_consolidate is false:
\* never a preference or profile, never one referenced >= 5 times or with
\* relevance_score > 0.7; every memory it does not delete stays as it was.
C12_DeletesOnlyStaleUnkept ==
    [][ \A id \in DOMAIN index :
          /\ id \notin DOMAIN index' =>
                /\ tasks # NoTasks
                /\ tasks[1].op = "delete_stale"
                /\ now - index[id].last_referenced_at > tasks[1].days_threshold
                /\ index[id].memory_type \notin {"preference", "profile"}
                /\ index[id].num_times_referenced < 5
                /\ index[id].relevance_score <= 7000
          /\ id \in DOMAIN index' => index'[id] = index[id] ]_vars

\* delete_stale for u1 with the default threshold has returned: it deleted the
\* stale fact s1 and the goal s6 at relevance 0.7, and kept the preference, the
\* task referenced 5 times, the goal above 0.7 and the other user's memories
C12_Witness ==
    /\ tasks # NoTasks
    /\ tasks[1].op = "delete_stale" /\ tasks[1].pc = "done"
    /\ tasks[1].user_id = "u1" /\ tasks[1].days_threshold = DAYS_DEFAULT
    /\ DOMAIN index = {"s2", "s3", "s4", "s5", "s7", "s8"}

(***************************************************************************)
(* SpecMark: concurrent MemoryRepository.mark_referenced calls, each split *)
(* at its awaits (memory_repository.py:264-288)                            *)
(***************************************************************************)
\* most concurrent calls
MaxTasks == 2

\* the ids the calls name; m0 is not in the collection
MarkTargets == {"m1", "m3", "m0"}

MarkCall(memory_id) ==
    [op |-> "mark_referenced", pc |-> "get_by_id", memory_id |-> memory_id]

MarkInit ==
    /\ now = 0
    /\ index = IndexOf(StoredMemories)
    /\ rag = RagIdle
    /\ ext = ExtIdle
    /\ rr = RrIdle
    /\ mem = MemIdle
    /\ docs = DocsEmpty
    /\ ch = ChIdle
    /\ emb = EmbIdle
    /\ \E n \in 1..MaxTasks : \E targets \in [1..n -> MarkTargets] :
          tasks = [k \in 1..n |-> MarkCall(targets[k])]

\* get_by_id returns; memory.mark_referenced() and boost_relevance() run on
\* the local object: lines 273-278
MarkGetById(k) ==
    /\ tasks[k].pc = "get_by_id"
    /\ LET memory_id == tasks[k].memory_id IN
       IF memory_id \notin DOMAIN index
       THEN tasks' = [tasks EXCEPT ![k] = [@ EXCEPT !.pc = "done"] @@ [result |-> None]]
       ELSE tasks' = [tasks EXCEPT ![k] = [@ EXCEPT !.pc = "set_payload"] @@
                        [memory |-> Memory_boost_relevance(
                                        Memory_mark_referenced(
                                            from_payload(index[memory_id]), now),
                                        BOOST_DEFAULT)]]
    /\ UNCHANGED <<now, index, rag, ext, rr, mem, docs, ch, emb>>

\* set_payload writes the local object's payload: lines 281-288
MarkSetPayload(k) ==
    /\ tasks[k].pc = "set_payload"
    /\ index' = [index EXCEPT ![tasks[k].memory_id] = to_payload(tasks[k].memory)]
    /\ tasks' = [tasks EXCEPT ![k] = [@ EXCEPT !.pc = "done"] @@
                    [result |-> tasks[k].memory]]
    /\ UNCHANGED <<now, rag, ext, rr, mem, docs, ch, emb>>

MarkNext ==
    \/ Tick
    \/ \E k \in DOMAIN tasks : MarkGetById(k)
    \/ \E k \in DOMAIN tasks : MarkSetPayload(k)

SpecMark == MarkInit /\ [][MarkNext]_vars

\* C15: when N mark_referenced calls on one memory_id have all completed, under
\* every interleaving of their get_by_id and set_payload steps, the stored
\* reference count is the initial count plus N.
C15_NoLostUpdate ==
    (\A k \in DOMAIN tasks : tasks[k].op = "mark_referenced" /\ tasks[k].pc = "done")
        => \A id \in DOMAIN index :
              index[id].num_times_referenced =
                  Cardinality({k \in DOMAIN tasks : tasks[k].memory_id = id})

(***************************************************************************)
(* Chunking (infrastructure/vector_store/chunking.py)                      *)
(* Offsets are Python's (0-based); sequences are indexed from 1.           *)
(***************************************************************************)
CHARS_PER_TOKEN == 4
\* the sentence boundary is searched from 200 characters before the target end
\* to 100 characters after it
LOOK_BACK == 200
LOOK_AHEAD == 100
\* heading_pattern: #{1,6}
MAX_HASHES == 6

SetMin(S) == CHOOSE x \in S : \A y \in S : x <= y
SetMax(S) == CHOOSE x \in S : \A y \in S : x >= y

\* c * n
Rep(c, n) == [i \in 1..n |-> c]

\* Python's text[lo:hi], either bound possibly negative or past the end
PySlice(text, lo, hi) ==
    LET n == Len(text)
        Norm(i) == IF i < 0 THEN Max(i + n, 0) ELSE Min(i, n)
    IN IF Norm(lo) < Norm(hi) THEN SubSeq(text, Norm(lo) + 1, Norm(hi)) ELSE <<>>

\* str.strip()
Strip(text) ==
    LET keep == {i \in DOMAIN text : text[i] \notin Whitespace}
    IN IF keep = {} THEN <<>> ELSE SubSeq(text, SetMin(keep), SetMax(keep))

\* the number of consecutive characters of S in text from index p (1-based) on
RunLen(text, p, S) ==
    SetMin({i \in p..Len(text) : text[i] \notin S} \cup {Len(text) + 1}) - p

estimate_tokens(text) == Len(text) \div CHARS_PER_TOKEN

SentenceEnds == {".", "!", "?"}

\* list(re.finditer(r'[.!?]\s+', chunk_text))[-1].end(), 0 when there is no match
LastBoundaryEnd(chunk_text) ==
    LET starts == {p \in 1..(Len(chunk_text) - 1) :
                      /\ chunk_text[p] \in SentenceEnds
                      /\ chunk_text[p + 1] \in Whitespace}
    IN IF starts = {} THEN 0
       ELSE SetMax(starts) + RunLen(chunk_text, SetMax(starts) + 1, Whitespace)

DocumentChunk(content, chunk_index, start_char, end_char, metadata) ==
    [content |-> content, chunk_index |-> chunk_index, start_char |-> start_char,
     end_char |-> end_char, metadata |-> metadata]

\* metadata={}
EmptyDict == <<>>

\* a target end that is not capped at the end of the text
ChunkEnd_uncapped(start, char_chunk_size, n) == start + char_chunk_size

\* line 64
ChunkEnd(start, char_chunk_size, n) == Min(start + char_chunk_size, n)

\* the locals of chunk_by_tokens when its while loop is entered
CbtLocals == [start |-> 0, chunk_index |-> 0, chunks |-> <<>>, pc |-> "loop"]

\* one iteration of the while loop of chunk_by_tokens, lines 62-96, on the
\* locals st; chunks are the chunks yielded so far, pc = "done" after the
\* break or when the loop condition fails
chunk_by_tokens_iteration(text, chunk_size, chunk_overlap, st) ==
    LET char_chunk_size == chunk_size * CHARS_PER_TOKEN
        char_overlap == chunk_overlap * CHARS_PER_TOKEN
        n == Len(text)
        start == st.start
        target == ChunkEnd(start, char_chunk_size, n)
        search_start == Max(start + char_chunk_size - LOOK_BACK, start)
        last_boundary ==
            IF target < n
            THEN LastBoundaryEnd(PySlice(text, search_start, target + LOOK_AHEAD))
            ELSE 0
    IN With(IF last_boundary > 0 THEN search_start + last_boundary ELSE target,
            LAMBDA end :
              LET chunk_content == Strip(PySlice(text, start, end))
                  next == IF end < n THEN end - char_overlap ELSE n
              IN [start |-> next,
                  chunk_index |-> IF chunk_content # <<>> THEN st.chunk_index + 1
                                  ELSE st.chunk_index,
                  chunks |-> IF chunk_content # <<>>
                             THEN Append(st.chunks,
                                         DocumentChunk(chunk_content, st.chunk_index,
                                                       start, end, EmptyDict))
                             ELSE st.chunks,
                  pc |-> IF next >= end \/ ~(next < n) THEN "done" ELSE "loop"])

\* list(chunk_by_tokens(text, chunk_size, chunk_overlap)) as far as fuel
\* iterations go: the locals reached (pc = "loop" when the generator has more)
RECURSIVE CbtRun(_, _, _, _, _)
CbtRun(text, chunk_size, chunk_overlap, st, fuel) ==
    IF st.pc = "done" \/ fuel = 0 THEN st
    ELSE CbtRun(text, chunk_size, chunk_overlap,
                With(st, LAMBDA s : chunk_by_tokens_iteration(text, chunk_size,
                                                              chunk_overlap, s)),
                fuel - 1)

\* re.match(r'^#{1,6}\s+', section)
IsHeading(section) ==
    /\ RunLen(section, 1, {"#"}) \in 1..MAX_HASHES
    /\ RunLen(section, RunLen(section, 1, {"#"}) + 1, Whitespace) >= 1

\* ^ under re.MULTILINE at index p (1-based)
LineStart(text, p) == p = 1 \/ text[p - 1] = "\n"

\* the index of the last character of the match of ^(#{1,6}\s+.+)$ that begins
\* at index p, 0 when there is none: \s+ takes the whole run of whitespace,
\* newlines included, and gives characters back until .+ has a character that
\* is not a newline; .+ then runs to the end of that line
HeadingMatchEnd(text, p) ==
    LET n == Len(text)
        hashes == RunLen(text, p, {"#"})
        first == p + hashes
        spaces == RunLen(text, first, Whitespace)
        body == {b \in (first + 1)..Min(first + spaces, n) : text[b] # "\n"}
    IN IF hashes \notin 1..MAX_HASHES \/ body = {} THEN 0
       ELSE SetMin({i \in SetMax(body)..n : text[i] = "\n"} \cup {n + 1}) - 1

\* re.split(heading_pattern, text, flags=re.MULTILINE), for the text from
\* index pos on
RECURSIVE re_split(_, _)
re_split(text, pos) ==
    LET found == {p \in pos..Len(text) :
                     LineStart(text, p) /\ HeadingMatchEnd(text, p) > 0}
    IN IF found = {} THEN << SubSeq(text, pos, Len(text)) >>
       ELSE << SubSeq(text, pos, SetMin(found) - 1),
               SubSeq(text, SetMin(found), HeadingMatchEnd(text, SetMin(found))) >>
            \o re_split(text, HeadingMatchEnd(text, SetMin(found)) + 1)

\* most iterations of chunk_by_tokens followed when its chunks are collected
\* in one step (an oversized section, chunk_document)
MaxSteps == 110

\* the locals of chunk_markdown when its for loop is entered; k is the index
\* of the next section, origin tells for every chunk which statement yielded
\* it while which section was being handled
MdLocals(text) ==
    [sections |-> re_split(text, 1), k |-> 1, current_heading |-> <<>>,
     chunk_index |-> 0, buffer |-> <<>>, buffer_start |-> 0, position |-> 0,
     chunks |-> <<>>, origin |-> <<>>, pc |-> "loop"]

\* the chunks of st with the buffer appended as a chunk when it is not blank
\* (lines 146-154, 167-175, 201-208)
YieldBuffer(st, heading, via) ==
    IF Strip(st.buffer) = <<>> THEN st
    ELSE [st EXCEPT
            !.chunks = Append(@, DocumentChunk(Strip(st.buffer), st.chunk_index,
                                               st.buffer_start, st.position,
                                               [heading |-> heading])),
            !.origin = Append(@, [via |-> via, k |-> st.k]),
            !.chunk_index = @ + 1]

\* lines 179-185: the chunks of chunk_by_tokens(section, ...) renumbered,
\* shifted by position and given the heading
YieldSubChunks(st, subs) ==
    [st EXCEPT
       !.chunks = @ \o [i \in DOMAIN subs |->
                          DocumentChunk(subs[i].content, st.chunk_index + i - 1,
                                        subs[i].start_char + st.position,
                                        subs[i].end_char + st.position,
                                        [heading |-> st.current_heading])],
       !.origin = @ \o [i \in DOMAIN subs |-> [via |-> "sub", k |-> st.k]],
       !.chunk_index = @ + Len(subs)]

\* the heading branch, lines 141-160
MdHeading(st, section, chunk_size) ==
    LET flushed ==
          IF estimate_tokens(st.buffer) >= chunk_size \div 2
          THEN [YieldBuffer(st, Strip(section), "heading")
                  EXCEPT !.buffer = <<>>, !.buffer_start = st.position]
          ELSE st
    IN [flushed EXCEPT !.current_heading = Strip(section),
                       !.buffer = @ \o section \o <<"\n">>,
                       !.position = @ + Len(section),
                       !.k = @ + 1]

\* the content branch, lines 162-198; an oversized section whose
\* chunk_by_tokens does not end within MaxSteps iterations leaves pc = "sub"
MdContent(st, section, chunk_size, chunk_overlap) ==
    LET section_tokens == estimate_tokens(section)
        sub == CbtRun(section, chunk_size, chunk_overlap, CbtLocals, MaxSteps)
        after ==
          IF estimate_tokens(st.buffer) + section_tokens > chunk_size
          THEN IF section_tokens > chunk_size
               THEN [YieldSubChunks(YieldBuffer(st, st.current_heading, "overflow"),
                                    sub.chunks)
                       EXCEPT !.buffer = <<>>,
                              !.buffer_start = st.position + Len(section),
                              !.pc = IF sub.pc = "done" THEN "loop" ELSE "sub"]
               ELSE [YieldBuffer(st, st.current_heading, "overflow")
                       EXCEPT !.buffer = IF st.current_heading # <<>>
                                         THEN st.current_heading \o <<"\n", "\n">>
                                                \o section
                                         ELSE section,
                              !.buffer_start = st.position]
          ELSE [st EXCEPT !.buffer = @ \o section]
    IN [after EXCEPT !.position = @ + Len(section), !.k = @ + 1]

\* one iteration of the for loop of chunk_markdown, lines 135-198
chunk_markdown_iteration(chunk_size, chunk_overlap, st) ==
    LET section == st.sections[st.k] IN
    IF Strip(section) = <<>>
    THEN [st EXCEPT !.position = @ + Len(section), !.k = @ + 1]
    ELSE IF IsHeading(section) THEN MdHeading(st, section, chunk_size)
    ELSE MdContent(st, section, chunk_size, chunk_overlap)

\* lines 200-208: the remaining buffer
chunk_markdown_rest(st) ==
    [YieldBuffer(st, st.current_heading, "final") EXCEPT !.pc = "done"]

(***************************************************************************)
(* SpecChunk: one chunk_by_tokens or chunk_markdown generator, advanced    *)
(* one loop iteration at a time                                            *)
(***************************************************************************)
\* longest text of the exhaustive families, most chunks followed
MaxTextLen == 4
MaxChunks == 4

PlainAlphabet == {"a", ".", " "}
MdAlphabet == {"#", "a", " ", "\n"}

TextsOver(alphabet) == UNION {[1..k -> alphabet] : k \in 0..MaxTextLen}

\* texts longer than the look-ahead, with sentence ends near their start and
\* end, and a text with a long run of blanks
LongTexts ==
    { <<"a", "b", ".", " ">> \o Rep("x", 121) \o <<".", " ", "y">>,
      <<"a", ".", " ">> \o Rep("b", 110) \o <<"a", ".", " ", " ", "a">>,
      Rep("a", 30) \o <<".", " ">> \o Rep("b", 280) \o <<".", " ", "c">>,
      <<"a">> \o Rep(" ", 20) \o <<"b">>,
      <<"a", "b", "c", "d", "e", "f", "g", "h">> }

\* markdown texts with two headings, an oversized section, seven hashes, and
\* a heading whose whitespace spans lines
MdTexts ==
    { <<"#", " ", "a", "\n", "b">>,
      <<"#", " ", "A", "\n", "x", "\n", "#", " ", "B", "\n", "y">>,
      <<"#", " ", "A", "\n">> \o Rep("x", 9) \o <<"\n", "#", " ", "B", "\n", "y">>,
      <<"x", ".", " ">> \o Rep("y", 9) \o <<"\n", "#", "#", " ", "B", "\n", "z">>,
      <<"#", "#", "#", "#", "#", "#", "#", " ", "a", "\n", "b">>,
      <<"#", "\n", "\n", "a", "\n", "#", " ", "\n">> }

\* (chunk_size, chunk_overlap) with chunk_size >= 1 and 0 <= chunk_overlap < chunk_size
ChunkParams == {<<1, 0>>, <<2, 0>>, <<2, 1>>, <<3, 2>>, <<51, 0>>, <<51, 50>>}

ChunkInit ==
    /\ now = 0
    /\ index = IndexOf(StoredMemories)
    /\ rag = RagIdle
    /\ ext = ExtIdle
    /\ rr = RrIdle
    /\ mem = MemIdle
    /\ tasks = NoTasks
    /\ docs = DocsEmpty
    /\ emb = EmbIdle
    /\ \E p \in ChunkParams :
          \/ \E text \in TextsOver(PlainAlphabet) \cup LongTexts :
                ch = [op |-> "chunk_by_tokens", text |-> text, chunk_size |-> p[1],
                      chunk_overlap |-> p[2], pc |-> "call"]
          \/ \E text \in TextsOver(MdAlphabet) \cup MdTexts :
                ch = [op |-> "chunk_markdown", text |-> text, chunk_size |-> p[1],
                      chunk_overlap |-> p[2], pc |-> "call"]

\* lines 52-60 and 119-133: a blank text yields nothing
ChunkEnter ==
    /\ ch.pc = "call"
    /\ ch' = IF Strip(ch.text) = <<>> THEN [ch EXCEPT !.pc = "done"] @@ [chunks |-> <<>>]
             ELSE IF ch.op = "chunk_by_tokens" THEN CbtLocals @@ ch
             ELSE MdLocals(ch.text) @@ ch
    /\ UNCHANGED <<now, index, rag, ext, rr, mem, tasks, docs, emb>>

CbtIterate ==
    /\ ch.op = "chunk_by_tokens" /\ ch.pc = "loop"
    /\ ch.chunk_index < MaxChunks
    /\ \E st \in {chunk_by_tokens_iteration(ch.text, ch.chunk_size, ch.chunk_overlap, ch)} :
          ch' = st @@ ch
    /\ UNCHANGED <<now, index, rag, ext, rr, mem, tasks, docs, emb>>

MdIterate ==
    /\ ch.op = "chunk_markdown" /\ ch.pc = "loop"
    /\ ch.k <= Len(ch.sections)
    /\ \E st \in {chunk_markdown_iteration(ch.chunk_size, ch.chunk_overlap, ch)} :
          ch' = st
    /\ UNCHANGED <<now, index, rag, ext, rr, mem, tasks, docs, emb>>

MdRest ==
    /\ ch.op = "chunk_markdown" /\ ch.pc = "loop"
    /\ ch.k > Len(ch.sections)
    /\ ch' = chunk_markdown_rest(ch)
    /\ UNCHANGED <<now, index, rag, ext, rr, mem, tasks, docs, emb>>

ChunkNext ==
    \/ ChunkEnter
    \/ CbtIterate
    \/ MdIterate
    \/ MdRest

SpecChunk == ChunkInit /\ [][ChunkNext]_vars

\* the generator has yielded chunks (it is past its first statement)
Chunked(op) == ch.op = op /\ ch.pc # "call"

\* C17: every chunk yielded by chunk_by_tokens, for chunk_size >= 1 and
\* 0 <= chunk_overlap < chunk_size, has 0 <= start_char < end_char <= len(text).
C17_ChunkOffsetsInText ==
    Chunked("chunk_by_tokens") =>
        \A i \in DOMAIN ch.chunks :
            /\ 0 <= ch.chunks[i].start_char
            /\ ch.chunks[i].start_char < ch.chunks[i].end_char
            /\ ch.chunks[i].end_char <= Len(ch.text)

\* chunk_by_tokens has yielded a chunk, stepped back before the start of the
\* text (start < 0) and yielded again
C17_Witness ==
    /\ Chunked("chunk_by_tokens")
    /\ ch.pc = "loop"
    /\ ch.start < 0
    /\ Len(ch.chunks) >= 2

\* C18: for a non-blank text t with len(t) < chunk_size*4, chunk_by_tokens and
\* chunk_markdown each yield exactly one chunk, whose content is t.strip().
C18_ShortTextIsOneChunk ==
    (/\ ch.pc = "done"
     /\ Strip(ch.text) # <<>>
     /\ Len(ch.text) < ch.chunk_size * 4)
        => /\ Len(ch.chunks) = 1
           /\ ch.chunks[1].content = Strip(ch.text)

\* C19: for a non-blank text the chunks of chunk_by_tokens, in chunk_index
\* order, cover [0, len(t)): the first starts at 0, each next one starts at or
\* before the end of the one before, and the last ends at len(t).
C19_ChunksCoverText ==
    (Chunked("chunk_by_tokens") /\ ch.pc = "done" /\ Strip(ch.text) # <<>>)
        => /\ ch.chunks # <<>>
           /\ ch.chunks[1].start_char = 0
           /\ \A i \in 1..(Len(ch.chunks) - 1) :
                 ch.chunks[i + 1].start_char <= ch.chunks[i].end_char
           /\ ch.chunks[Len(ch.chunks)].end_char = Len(ch.text)

\* the sections handled before section k that are heading lines
HeadingsBefore(k) ==
    {j \in 1..(k - 1) : Strip(ch.sections[j]) # <<>> /\ IsHeading(ch.sections[j])}

\* the text in the buffer when section k was reached ends in body text: a
\* non-blank section after the last heading, or before any heading
BodyBefore(k) ==
    \E j \in 1..(k - 1) :
        /\ Strip(ch.sections[j]) # <<>>
        /\ \A h \in HeadingsBefore(k) : h < j

\* C20: a chunk of chunk_markdown flushed from the buffer carries as
\* metadata['heading'] the most recent heading line before the body text in it
\* ("" when no heading precedes it), also when the next heading triggers the flush.
C20_FlushedChunkHasOwningHeading ==
    (Chunked("chunk_markdown") /\ Strip(ch.text) # <<>>) =>
        \A i \in DOMAIN ch.chunks :
            (ch.origin[i].via # "sub" /\ BodyBefore(ch.origin[i].k)) =>
                ch.chunks[i].metadata.heading =
                    IF HeadingsBefore(ch.origin[i].k) = {} THEN <<>>
                    ELSE Strip(ch.sections[SetMax(HeadingsBefore(ch.origin[i].k))])

(***************************************************************************)
(* SpecIndex: one DocumentRepository.index_document call, split at its     *)
(* awaits (document_repository.py:55-131, qdrant_client.py:115-147)        *)
(***************************************************************************)
\* upsert_points_batch: batch_size
UPSERT_BATCH == 100

\* list(chunk_markdown(text, chunk_size, chunk_overlap)): the locals at the end
RECURSIVE MdRun(_, _, _)
MdRun(chunk_size, chunk_overlap, st) ==
    IF st.pc # "loop" THEN st
    ELSE IF st.k > Len(st.sections) THEN chunk_markdown_rest(st)
    ELSE MdRun(chunk_size, chunk_overlap,
               With(st, LAMBDA s : chunk_markdown_iteration(chunk_size, chunk_overlap, s)))

\* the documents of the vault: path -> [markdown: path.endswith('.md'),
\* title: path.split("/")[-1].replace(".md", "")]
Paths ==
    [ n1 |-> [markdown |-> TRUE, title |-> "n1"],
      n2 |-> [markdown |-> FALSE, title |-> "n2.txt"] ]

\* chunk_document: the generator's locals at the end, the path added to the
\* metadata of every chunk
chunk_document(content, path, chunk_size, chunk_overlap) ==
    LET st == IF Strip(content) = <<>> THEN [pc |-> "done", chunks |-> <<>>]
              ELSE IF Paths[path].markdown
              THEN MdRun(chunk_size, chunk_overlap, MdLocals(content))
              ELSE CbtRun(content, chunk_size, chunk_overlap, CbtLocals, MaxSteps)
    IN [pc |-> st.pc,
        chunks |-> [i \in DOMAIN st.chunks |->
                      [st.chunks[i] EXCEPT !.metadata = [path |-> path] @@ @]]]

\* lines 102-117: one point per chunk
IndexPoints(path, chunks, last_modified) ==
    [i \in DOMAIN chunks |->
        [chunk_id |-> <<path, chunks[i].chunk_index>>,
         path |-> path,
         content |-> chunks[i].content,
         chunk_index |-> chunks[i].chunk_index,
         title |-> Paths[path].title,
         heading |-> IF "heading" \in DOMAIN chunks[i].metadata
                     THEN chunks[i].metadata.heading ELSE <<>>,
         last_modified |-> last_modified,
         start_char |-> chunks[i].start_char,
         end_char |-> chunks[i].end_char]]

\* client.upsert: points replace the points with their ids
upsert(points, batch) ==
    {p \in points : \A i \in DOMAIN batch : batch[i].chunk_id # p.chunk_id}
        \cup Range(batch)

\* chunking parameters of the indexing calls
IndexParams == <<2, 1>>

\* the vault as indexed at day -5
OldContents ==
    [ n1 |-> <<"#", " ", "A", "\n", "o", "l", "d", " ", "t", "e", "x", "t", "\n", "#", " ", "B", "\n", "m", "o", "r", "e", " ", "o", "l", "d", " ", "t", "e", "x", "t">>,
      n2 |-> <<"o", "l", "d", " ", "t", "e", "x", "t", " ", "o", "f", " ", "t", "h", "e", " ", "n", "o", "t", "e", " ", "n", "2">> ]

PreviousPoints(path) ==
    Range(IndexPoints(path,
                      chunk_document(OldContents[path], path,
                                     IndexParams[1], IndexParams[2]).chunks,
                      -5))

\* what index_document is given: new texts, one of them a text on which
\* chunk_by_tokens does not end, a text of more than UPSERT_BATCH chunks, a
\* blank text
NewContents ==
    { <<"#", " ", "A", "\n", "n", "e", "w">>,
      <<"n", "e", "w", ".", " ", "t", "e", "x", "t", " ", "o", "f", " ", "t", "h", "e", " ", "n", "o", "t", "e", " ", "n", "2", ",", " ", "n", "o", "w", " ", "l", "o", "n", "g", "e", "r">>,
      <<"n", "e", "w", " ", "t", "e", "x", "t">>,
      Rep("a", 4 * UPSERT_BATCH + 9),
      <<" ", " ">> }

IndexInit ==
    /\ now = 0
    /\ index = IndexOf(StoredMemories)
    /\ rag = RagIdle
    /\ ext = ExtIdle
    /\ rr = RrIdle
    /\ mem = MemIdle
    /\ tasks = NoTasks
    /\ ch = ChIdle
    /\ emb = EmbIdle
    /\ docs = PreviousPoints("n1") \cup PreviousPoints("n2")

\* index_document(path, content, chunk_size=2, chunk_overlap=1) is called:
\* lines 77-85
IndexStart(path, content) ==
    /\ tasks = NoTasks
    /\ tasks' = << [op |-> "index_document", path |-> path, content |-> content,
                    last_modified |-> now,
                    pc |-> IF Strip(content) = <<>> THEN "done" ELSE "delete_by_path",
                    result |-> IF Strip(content) = <<>> THEN 0 ELSE None] >>
    /\ UNCHANGED <<now, index, rag, ext, rr, mem, docs, ch, emb>>

\* a step of the call
IndexAt(pc) ==
    /\ tasks # NoTasks
    /\ tasks[1].op = "index_document"
    /\ tasks[1].pc = pc

\* the awaited call raises: index_document raises with it
IndexFail(pc) ==
    /\ IndexAt(pc)
    /\ tasks' = << [tasks[1] EXCEPT !.pc = "failed", !.result = Raised(pc)] >>
    /\ UNCHANGED <<now, index, rag, ext, rr, mem, docs, ch, emb>>

\* delete_by_path returns, chunk_document runs: lines 88-94
IndexDeleteByPath ==
    /\ IndexAt("delete_by_path")
    /\ docs' = {p \in docs : p.path # tasks[1].path}
    /\ \E c \in {chunk_document(tasks[1].content, tasks[1].path,
                                IndexParams[1], IndexParams[2])} :
          tasks' = << IF c.pc # "done" THEN [tasks[1] EXCEPT !.pc = "chunking"]
                      ELSE IF c.chunks = <<>>
                      THEN [tasks[1] EXCEPT !.pc = "done", !.result = 0]
                      ELSE [tasks[1] EXCEPT !.pc = "embed_texts"]
                             @@ [chunks |-> c.chunks] >>
    /\ UNCHANGED <<now, index, rag, ext, rr, mem, ch, emb>>

\* embed_texts returns, the points are prepared: lines 97-117
IndexEmbed ==
    /\ IndexAt("embed_texts")
    /\ tasks' = << [tasks[1] EXCEPT !.pc = "upsert"]
                     @@ [points |-> IndexPoints(tasks[1].path, tasks[1].chunks,
                                                tasks[1].last_modified),
                         i |-> 0] >>
    /\ UNCHANGED <<now, index, rag, ext, rr, mem, docs, ch, emb>>

\* one client.upsert of upsert_points_batch returns; after the last one
\* index_document returns len(chunks)
IndexUpsertBatch ==
    /\ IndexAt("upsert")
    /\ LET t == tasks[1]
           batch == PySlice(t.points, t.i, t.i + UPSERT_BATCH)
       IN /\ docs' = upsert(docs, batch)
          /\ tasks' = << IF t.i + UPSERT_BATCH < Len(t.points)
                         THEN [t EXCEPT !.i = @ + UPSERT_BATCH]
                         ELSE [t EXCEPT !.i = @ + UPSERT_BATCH, !.pc = "done",
                                        !.result = Len(t.chunks)] >>
    /\ UNCHANGED <<now, index, rag, ext, rr, mem, ch, emb>>

IndexNext ==
    \/ Tick
    \/ \E path \in DOMAIN Paths, content \in NewContents : IndexStart(path, content)
    \/ IndexDeleteByPath
    \/ IndexEmbed
    \/ IndexUpsertBatch
    \/ \E pc \in {"delete_by_path", "embed_texts", "upsert"} : IndexFail(pc)

SpecIndex == IndexInit /\ [][IndexNext]_vars

\* the chunks visible for the path of the call
Visible == {p \in docs : p.path = tasks[1].path}

\* the complete chunk set of the content being indexed
NewPoints ==
    Range(IndexPoints(tasks[1].path,
                      chunk_document(tasks[1].content, tasks[1].path,
                                     IndexParams[1], IndexParams[2]).chunks,
                      tasks[1].last_modified))

\* C16: at every point during index_document(path, content), and after it has
\* failed in the embedding or an upsert, the chunks visible for the path are
\* the complete previous set or the complete new set; once a new chunk is
\* written no previous chunk is visible.
C16_ReindexIsAtomic ==
    (tasks # NoTasks /\ tasks[1].op = "index_document"
        /\ Strip(tasks[1].content) # <<>>) =>
        /\ \/ Visible = PreviousPoints(tasks[1].path)
           \/ Visible = NewPoints
        /\ Visible \cap NewPoints # {} => Visible \cap PreviousPoints(tasks[1].path) = {}

\* C25: chunk_by_tokens terminates for chunk_size >= 1 and
\* 0 <= chunk_overlap < chunk_size: from each iteration of its loop to the
\* next the window start strictly increases.
C25_StartStrictlyIncreases ==
    [][ (/\ ch.op = "chunk_by_tokens" /\ ch.pc = "loop"
         /\ ch'.op = "chunk_by_tokens" /\ ch'.pc = "loop")
            => ch'.start > ch.start ]_vars

\* the query keywords found in the content of candidate i
MatchedKeywords(in, i) ==
    {kw \in extract_keywords(in.query) : IsSubstr(kw, Lower(in.results[i].content))}

\* C23: for strategy 'keyword' every result has final_score = original_score +
\* (query keywords matched in its content / query keywords) * 0.3, the boost
\* being 0 when the query has no keywords; so original_score <= final_score
\* <= original_score + 0.3. (Scores are in units of 1/(One*FScale).)
C23_KeywordBoostIsMatchRatioTimesWeight ==
    (RrCalled("rerank") /\ rr.in.strategy = "keyword") =>
        /\ rr.out.kind = "return"
        /\ \A p \in DOMAIN rr.out.val :
              LET res == rr.out.val[p]
                  i == res.original_item
                  original == rr.in.results[i].score * FScale
                  keywords == extract_keywords(rr.in.query)
              IN /\ res.original_score = rr.in.results[i].score
                 /\ keywords = {} => res.final_score = original
                 /\ keywords # {} =>
                       Cardinality(keywords) * (res.final_score - original)
                          = Cardinality(MatchedKeywords(rr.in, i)) * 3 * (One \div 10) * FScale
                 /\ original <= res.final_score
                 /\ res.final_score <= original + 3 * (One \div 10) * FScale

\* a keyword rerank returned a candidate that matches one of the two query
\* keywords and one that matches both
C23_Witness ==
    /\ RrCalled("rerank") /\ rr.in.strategy = "keyword"
    /\ rr.out.kind = "return"
    /\ Cardinality(extract_keywords(rr.in.query)) = 2
    /\ \E p, q \in DOMAIN rr.out.val :
          /\ Cardinality(MatchedKeywords(rr.in, rr.out.val[p].original_item)) = 1
          /\ Cardinality(MatchedKeywords(rr.in, rr.out.val[q].original_item)) = 2

\* the combined candidates of the query as a reranker reading each candidate's
\* own last_modified or timestamp would see them
OwnCandidates ==
    [i \in DOMAIN rag.combined.val |->
        LET c == rag.combined.val[i] IN
        [score |-> c.score, content |-> c.content]
          @@ (IF HasAttr(c.item, "last_modified")
              THEN [last_modified |-> c.item.last_modified]
              ELSE IF HasAttr(c.item, "timestamp")
              THEN [timestamp |-> c.item.timestamp]
              ELSE <<>>)]

\* the query reranked its candidates with a strategy that boosts by recency
RecencyReranked ==
    /\ QueryDone
    /\ rag.rerank_strategy \in {"recency", "hybrid"}
    /\ rag.combined.kind = "return"
    /\ rag.reranked.kind = "return"

\* C27: in query() with strategy 'recency' or 'hybrid' the recency boost of a
\* candidate comes from its own timestamp (last_modified of a document chunk,
\* timestamp of a memory, the current time only when it has neither): two
\* document candidates with equal weighted score and different ages below
\* max_age_days get different final scores under 'recency'.
C27_RecencyFromOwnTimestamp ==
    RecencyReranked =>
        LET val == rag.reranked.val
            own == [results |-> OwnCandidates, query |-> rag.query,
                    strategy |-> rag.rerank_strategy]
        IN /\ \A p \in DOMAIN val :
                 val[p].final_score = BoostedScore(own, val[p].original_item, now)
           /\ \A p, q \in DOMAIN val :
                 LET a == OwnCandidates[val[p].original_item]
                     b == OwnCandidates[val[q].original_item]
                 IN (/\ rag.rerank_strategy = "recency"
                     /\ HasAttr(a, "last_modified") /\ HasAttr(b, "last_modified")
                     /\ a.score = b.score
                     /\ a.last_modified # b.last_modified
                     /\ now - a.last_modified \in 0..(MAX_AGE_DAYS - 1)
                     /\ now - b.last_modified \in 0..(MAX_AGE_DAYS - 1))
                        => val[p].final_score # val[q].final_score

\* per source: the list of the returned context, its limit, the hits of its
\* search and its two statistics
SourceView(source) ==
    LET out == rag.outcome.val IN
    IF source = "memory"
    THEN [returned |-> out.memories, limit |-> rag.memory_limit,
          retrieved |-> out.retrieval_stats.memories_retrieved,
          searched |-> out.retrieval_stats.memories_searched]
    ELSE IF source = "document"
    THEN [returned |-> out.documents, limit |-> rag.document_limit,
          retrieved |-> out.retrieval_stats.documents_retrieved,
          searched |-> out.retrieval_stats.documents_searched]
    ELSE [returned |-> out.uploaded_docs, limit |-> rag.uploaded_doc_limit,
          retrieved |-> out.retrieval_stats.uploaded_docs_retrieved,
          searched |-> out.retrieval_stats.uploaded_docs_searched]

Sources == {"memory", "document", "uploaded"}

\* C24: when query() returns, each source's returned list is no longer than
\* its limit nor than the hits searched for it, '<source>_retrieved' is the
\* length of the returned list, '<source>_searched' is the number of hits its
\* search returned (0 for a source that was not searched), and
\* 'rerank_strategy' is the requested strategy.
C24_LimitsAndStatistics ==
    (QueryDone /\ rag.outcome.kind = "return") =>
        /\ \A source \in Sources :
              LET v == SourceView(source) IN
              /\ Len(v.returned) <= v.limit
              /\ Len(v.returned) <= v.searched
              /\ v.retrieved = Len(v.returned)
              /\ v.searched = IF rag.searches[source] = "ok"
                              THEN Len(rag.hits[source]) ELSE 0
        /\ rag.outcome.val.retrieval_stats.rerank_strategy = rag.rerank_strategy

C24_Witness ==
    /\ QueryDone /\ rag.outcome.kind = "return"
    /\ rag.rerank_strategy \in Strategies
    /\ Len(rag.hits["document"]) > rag.document_limit
    /\ Len(rag.outcome.val.documents) = rag.document_limit
    /\ rag.searches["uploaded"] = "ok"
    /\ Len(rag.hits["uploaded"]) > rag.uploaded_doc_limit
    /\ Len(rag.outcome.val.uploaded_docs) = rag.uploaded_doc_limit
    /\ rag.searches["memory"] = "failed"

\* C30: when query() reranks, each enabled source keeps exactly
\* min(its limit, the number of hits searched for it) items: the combined cut
\* at top_k = memory_limit + document_limit + uploaded_doc_limit never leaves
\* a source with fewer items than its limit and its hits allow.
C30_EachSourceKeepsItsShare ==
    (/\ QueryDone /\ rag.outcome.kind = "return"
     /\ rag.rerank_strategy # "none" /\ rag.combined.val # <<>>) =>
        \A source \in Sources :
           rag.searches[source] = "ok" =>
              Len(SourceView(source).returned)
                 = Min(SourceView(source).limit, Len(rag.hits[source]))


(***************************************************************************)
(* EmbeddingCache (infrastructure/embeddings/embedding_service.py)         *)
(***************************************************************************)
VECTOR_SIZE == 1536
MAX_BATCH_SIZE == 100
MAX_INPUT_LENGTH == 8191
\* the maxsize of an EmbeddingCache built without arguments
CACHE_MAXSIZE == 10000

\* EmbeddingCache._hash_text: the first 16 hex digits of the SHA-256 of the
\* text; distinct texts of the model have distinct keys
hash_text(text) == <<"sha256", text>>

\* EmbeddingCache.__init__
EmbeddingCache(maxsize) == [_cache |-> EmptyDict, _order |-> <<>>, _maxsize |-> maxsize]

\* EmbeddingCache.get
Cache_get(cache, text) ==
    LET key == hash_text(text)
    IN IF key \in DOMAIN cache._cache THEN cache._cache[key] ELSE None

\* a set that evicts the newest entry instead of the oldest
Cache_set_evict_newest(cache, text, embedding) ==
    LET key == hash_text(text) IN
    IF key \in DOMAIN cache._cache THEN Returned(cache)
    ELSE IF Cardinality(DOMAIN cache._cache) >= cache._maxsize
    THEN IF cache._order = <<>> THEN Raised("IndexError")
         ELSE LET newest == cache._order[Len(cache._order)]
                  kept == DOMAIN cache._cache \ {newest}
              IN Returned([cache EXCEPT
                    !._cache = [k \in kept \cup {key} |->
                                   IF k = key THEN embedding ELSE cache._cache[k]],
                    !._order = Append(SubSeq(cache._order, 1, Len(cache._order) - 1),
                                      key)])
    ELSE Returned([cache EXCEPT
            !._cache = [k \in DOMAIN cache._cache \cup {key} |->
                           IF k = key THEN embedding ELSE cache._cache[k]],
            !._order = Append(cache._order, key)])

\* `self._cache.get(text) is not None`: no stored embedding is None
Cache_hit(cache, text) == hash_text(text) \in DOMAIN cache._cache

\* EmbeddingCache.set: the cache after the call, or the exception of
\* self._order.pop(0) on an empty list
Cache_set(cache, text, embedding) ==
    LET key == hash_text(text) IN
    IF key \in DOMAIN cache._cache THEN Returned(cache)
    ELSE IF Cardinality(DOMAIN cache._cache) >= cache._maxsize
    THEN IF cache._order = <<>> THEN Raised("IndexError")
         ELSE LET oldest == Head(cache._order)
                  kept == DOMAIN cache._cache \ {oldest}
              IN Returned([cache EXCEPT
                    !._cache = [k \in kept \cup {key} |->
                                   IF k = key THEN embedding ELSE cache._cache[k]],
                    !._order = Append(Tail(cache._order), key)])
    ELSE Returned([cache EXCEPT
            !._cache = [k \in DOMAIN cache._cache \cup {key} |->
                           IF k = key THEN embedding ELSE cache._cache[k]],
            !._order = Append(cache._order, key)])

\* EmbeddingCache.clear
Cache_clear(cache) == [cache EXCEPT !._cache = EmptyDict, !._order = <<>>]

(***************************************************************************)
(* Direct calls on one EmbeddingCache                                      *)
(***************************************************************************)
MaxCacheCalls == 4
CacheSizes == {1, 2}
CacheTexts == {<<"a">>, <<"b">>, <<"c">>}
CacheEmbeddings == {<<1>>, <<2>>}

\* the cache, the number of calls made, the last call and what it returned;
\* age[key] is the number of the call that inserted the entry now under key
CacheInit ==
    /\ now = 0
    /\ index = IndexOf(StoredMemories)
    /\ rag = RagIdle
    /\ ext = ExtIdle
    /\ rr = RrIdle
    /\ mem = MemIdle
    /\ tasks = NoTasks
    /\ docs = DocsEmpty
    /\ ch = ChIdle
    /\ \E maxsize \in CacheSizes :
          emb = [op |-> "cache", cache |-> EmbeddingCache(maxsize), calls |-> 0,
                 age |-> EmptyDict, last |-> [call |-> "init"]]

CacheCalled(call, text, embedding, result, cache) ==
    /\ emb.op = "cache"
    /\ emb.calls < MaxCacheCalls
    /\ emb' = [emb EXCEPT
          !.cache = cache,
          !.calls = @ + 1,
          !.age = [k \in DOMAIN cache._cache |->
                      IF k \in DOMAIN emb.cache._cache THEN emb.age[k]
                      ELSE emb.calls + 1],
          !.last = [call |-> call, text |-> text, embedding |-> embedding,
                    result |-> result]]
    /\ UNCHANGED <<now, index, rag, ext, rr, mem, tasks, docs, ch>>

CacheSet(text, embedding) ==
    \E after \in {Cache_set(emb.cache, text, embedding)} :
       CacheCalled("set", text, embedding,
                   IF after.kind = "raise" THEN after ELSE Returned(None),
                   IF after.kind = "raise" THEN emb.cache ELSE after.val)

CacheGet(text) ==
    CacheCalled("get", text, None, Returned(Cache_get(emb.cache, text)), emb.cache)

CacheClear ==
    CacheCalled("clear", None, None, Returned(None), Cache_clear(emb.cache))

CacheNext ==
    \/ \E text \in CacheTexts : \E embedding \in CacheEmbeddings :
          CacheSet(text, embedding)
    \/ \E text \in CacheTexts : CacheGet(text)
    \/ CacheClear

SpecCache == CacheInit /\ [][CacheNext]_vars

\* the step is the call `call` on the cache
CacheStep(call) ==
    emb.op = "cache" /\ emb'.calls = emb.calls + 1 /\ emb'.last.call = call

\* the key of the entry inserted earliest among those present
EarliestInserted ==
    CHOOSE k \in DOMAIN emb.cache._cache :
       \A j \in DOMAIN emb.cache._cache : emb.age[k] <= emb.age[j]

IsBlank_empty_only(text) == text = <<>>

\* `not text or not text.strip()`
IsBlank(text) == text = <<>> \/ Strip(text) = <<>>

\* text[:MAX_INPUT_LENGTH * 4] when the text is longer than that
Truncate(text) ==
    IF Len(text) > MAX_INPUT_LENGTH * 4 THEN PySlice(text, 0, MAX_INPUT_LENGTH * 4)
    ELSE text

\* [0.0] * VECTOR_SIZE
ZeroVector == Rep(0, VECTOR_SIZE)

\* the texts given to the service; the provider answers a text with a vector
\* of VECTOR_SIZE components that depends on the text alone
EmbTexts == << <<"a">>, <<"b">>, <<" ">>, <<>> >>
ProviderEmbedding(text) ==
    Rep(CHOOSE i \in DOMAIN EmbTexts : EmbTexts[i] = text, VECTOR_SIZE)

\* the first loop of embed_texts (lines 174-186): results with None where the
\* provider is needed, and the pairs <<position, text>> still to embed
CheckCache(cache, texts, use_cache) ==
    LET cached(i) == IF use_cache THEN Cache_get(cache, texts[i]) ELSE None
        results == [i \in DOMAIN texts |->
                      IF IsBlank(texts[i]) THEN ZeroVector ELSE cached(i)]
        misses == {i \in DOMAIN texts :
                      /\ ~IsBlank(texts[i])
                      /\ ~(use_cache /\ Cache_hit(cache, texts[i]))}
        RECURSIVE Pairs(_)
        Pairs(i) == IF i > Len(texts) THEN <<>>
                    ELSE (IF i \in misses THEN << <<i, texts[i]>> >> ELSE <<>>)
                         \o Pairs(i + 1)
    IN [results |-> List(results), texts_to_embed |-> Pairs(1)]

\* a batch that takes every text still to embed
BatchOf_unbounded(texts_to_embed, batch_start, batch_size) ==
    PySlice(texts_to_embed, batch_start, Len(texts_to_embed))

\* texts_to_embed[batch_start:batch_start + batch_size]
BatchOf(texts_to_embed, batch_start, batch_size) ==
    PySlice(texts_to_embed, batch_start, batch_start + batch_size)

\* lines 215-222: the results and the cache after the items of data["data"]
\* from the j-th on were mapped back, or the exception of a cache write
RECURSIVE MapBack(_, _, _, _, _, _)
MapBack(results, cache, batch, data, use_cache, j) ==
    IF j > Len(data) THEN Returned([results |-> results, cache |-> cache])
    ELSE LET original_idx == batch[j][1]
             embedding == data[j]
             written == IF use_cache THEN Cache_set(cache, batch[j][2], embedding)
                        ELSE Returned(cache)
         IN IF written.kind = "raise" THEN written
            ELSE MapBack([results EXCEPT ![original_idx] = embedding], written.val,
                         batch, data, use_cache, j + 1)

(***************************************************************************)
(* Calls of embed_text and embed_texts on one EmbeddingService             *)
(***************************************************************************)
MaxTexts == 3
MaxBatchSize == 2

RECURSIVE TextLists(_)
TextLists(n) ==
    IF n = 0 THEN {<<>>}
    ELSE TextLists(n - 1)
         \cup {Append(l, EmbTexts[i]) : l \in TextLists(n - 1), i \in DOMAIN EmbTexts}

\* the texts embedded by the calls made before, in the order of those calls
WarmTexts == {<<>>, <<EmbTexts[1]>>, <<EmbTexts[2]>>, <<EmbTexts[1], EmbTexts[2]>>,
              <<EmbTexts[2], EmbTexts[1]>>}

\* the cache of a service after embed_text answered the texts of warm
RECURSIVE WarmCache(_)
WarmCache(warm) ==
    IF warm = <<>> THEN EmbeddingCache(CACHE_MAXSIZE)
    ELSE Cache_set(WarmCache(SubSeq(warm, 1, Len(warm) - 1)), warm[Len(warm)],
                   ProviderEmbedding(warm[Len(warm)])).val

\* a service between two calls: a cache of the default size holding what the
\* calls before left in it; sent is the list of the posts made to the provider
\* by the running call, each the list of its texts, cache0 the cache when that
\* call began
EmbInit ==
    /\ now = 0
    /\ index = IndexOf(StoredMemories)
    /\ rag = RagIdle
    /\ ext = ExtIdle
    /\ rr = RrIdle
    /\ mem = MemIdle
    /\ tasks = NoTasks
    /\ docs = DocsEmpty
    /\ ch = ChIdle
    /\ \E warm \in WarmTexts :
          emb = [op |-> "service", cache |-> WarmCache(warm), pc |-> "idle"]

EmbUnchanged == UNCHANGED <<now, index, rag, ext, rr, mem, tasks, docs, ch>>

\* a call begins: its locals replace those of the call before
EmbCall(call, locals) ==
    [op |-> "service", cache |-> emb.cache, cache0 |-> emb.cache, call |-> call, sent |-> <<>>, failed |-> FALSE] @@ locals

EmbCanCall ==
    /\ emb.op = "service"
    /\ emb.pc = "idle"

\* embed_text up to its await of client.post
EmbedTextStart(text, use_cache) ==
    /\ EmbCanCall
    /\ emb' = EmbCall("embed_text", [text |-> text, use_cache |-> use_cache])
               @@ (IF IsBlank(text)
                   THEN [pc |-> "done", outcome |-> Raised("ValueError")]
                   ELSE IF use_cache /\ Cache_hit(emb.cache, Truncate(text))
                   THEN [pc |-> "done",
                         outcome |-> Returned(Cache_get(emb.cache, Truncate(text)))]
                   ELSE [pc |-> "post_text"])
    /\ EmbUnchanged

\* the provider answers the post of embed_text
EmbedTextResponse ==
    /\ emb.op = "service" /\ emb.pc = "post_text"
    /\ \E embedding \in {ProviderEmbedding(Truncate(emb.text))} :
       \E written \in {IF emb.use_cache
                       THEN Cache_set(emb.cache, Truncate(emb.text), embedding)
                       ELSE Returned(emb.cache)} :
          emb' = [pc |-> "done", sent |-> << <<Truncate(emb.text)>> >>,
                  cache |-> IF written.kind = "raise" THEN emb.cache ELSE written.val,
                  outcome |-> IF written.kind = "raise" THEN written
                              ELSE Returned(embedding)] @@ emb
    /\ EmbUnchanged

\* the post of embed_text fails: the exception is logged and raised again
EmbedTextFail ==
    /\ emb.op = "service" /\ emb.pc = "post_text"
    /\ emb' = [pc |-> "done", sent |-> << <<Truncate(emb.text)>> >>, failed |-> TRUE,
               outcome |-> Raised("HTTPStatusError")] @@ emb
    /\ EmbUnchanged

\* embed_texts up to its first batch
EmbedTextsStart(texts, batch_size, use_cache) ==
    /\ EmbCanCall
    /\ \E checked \in {CheckCache(emb.cache, texts, use_cache)} :
          emb' = EmbCall("embed_texts",
                         [texts |-> texts, batch_size |-> batch_size,
                          use_cache |-> use_cache])
                  @@ (IF texts = <<>>
                      THEN [pc |-> "done", outcome |-> Returned(<<>>)]
                      ELSE IF checked.texts_to_embed = <<>>
                      THEN [pc |-> "done", outcome |-> Returned(checked.results)]
                      ELSE [pc |-> "batch", batch_start |-> 0,
                            results |-> checked.results,
                            texts_to_embed |-> checked.texts_to_embed])
    /\ EmbUnchanged

\* the texts of the batch at batch_start, as posted
BatchTexts ==
    LET batch == BatchOf(emb.texts_to_embed, emb.batch_start, emb.batch_size)
    IN [j \in DOMAIN batch |-> Truncate(batch[j][2])]

\* one iteration of the batch loop whose post succeeds
EmbedTextsBatch ==
    /\ emb.op = "service" /\ emb.pc = "batch"
    /\ \E batch \in {BatchOf(emb.texts_to_embed, emb.batch_start, emb.batch_size)} :
       \E batch_texts \in {BatchTexts} :
       \E mapped \in {MapBack(emb.results, emb.cache, batch,
                              [j \in DOMAIN batch_texts |->
                                  ProviderEmbedding(batch_texts[j])],
                              emb.use_cache, 1)} :
          emb' = (IF mapped.kind = "raise"
                  THEN [pc |-> "done", outcome |-> mapped,
                        sent |-> Append(emb.sent, batch_texts)]
                  ELSE IF emb.batch_start + emb.batch_size >= Len(emb.texts_to_embed)
                  THEN [pc |-> "done", outcome |-> Returned(mapped.val.results),
                        sent |-> Append(emb.sent, batch_texts),
                        results |-> mapped.val.results, cache |-> mapped.val.cache]
                  ELSE [batch_start |-> emb.batch_start + emb.batch_size,
                        sent |-> Append(emb.sent, batch_texts),
                        results |-> mapped.val.results, cache |-> mapped.val.cache])
                 @@ emb
    /\ EmbUnchanged

\* one iteration of the batch loop whose post fails
EmbedTextsBatchFail ==
    /\ emb.op = "service" /\ emb.pc = "batch"
    /\ emb' = [pc |-> "done", sent |-> Append(emb.sent, BatchTexts), failed |-> TRUE,
               outcome |-> Raised("HTTPStatusError")] @@ emb
    /\ EmbUnchanged

EmbNext ==
    \/ \E i \in DOMAIN EmbTexts : \E use_cache \in BOOLEAN :
          EmbedTextStart(EmbTexts[i], use_cache)
    \/ EmbedTextResponse
    \/ EmbedTextFail
    \/ \E texts \in TextLists(MaxTexts) : \E batch_size \in 1..MaxBatchSize :
       \E use_cache \in BOOLEAN :
          EmbedTextsStart(texts, batch_size, use_cache)
    \/ EmbedTextsBatch
    \/ EmbedTextsBatchFail

SpecEmbed == EmbInit /\ [][EmbNext]_vars

EmbDone(call) == emb.op = "service" /\ emb.pc = "done" /\ emb.call = call

\* every text posted to the provider by the running call
SentTexts == UNION { Range(emb.sent[k]) : k \in DOMAIN emb.sent }


\* an empty or whitespace-only text
Blank(text) == \A c \in Range(text) : c \in Whitespace

\* the positions of the blank entries of the texts given to embed_texts
BlankPositions == {i \in DOMAIN emb.texts : Blank(emb.texts[i])}

\* C22: embed_text on an empty or whitespace-only text raises the empty-input
\* error without posting to the provider and without changing the cache;
\* embed_texts raises only when a post fails, never because of a blank entry:
\* it returns the all-zero vector of VECTOR_SIZE components at that position,
\* and blank entries are neither posted nor written to the cache.
C22_BlankTextHandling ==
    /\ (EmbDone("embed_text") /\ Blank(emb.text)) =>
          /\ emb.outcome = Raised("ValueError")
          /\ emb.sent = <<>>
          /\ emb.cache = emb.cache0
    /\ EmbDone("embed_texts") =>
          /\ emb.outcome.kind = "raise" => emb.failed
          /\ emb.outcome.kind = "return" =>
                \A i \in BlankPositions :
                   /\ Len(emb.outcome.val[i]) = VECTOR_SIZE
                   /\ \A c \in DOMAIN emb.outcome.val[i] : emb.outcome.val[i][c] = 0
          /\ \A t \in SentTexts : ~Blank(t)
          /\ \A i \in BlankPositions : ~Cache_hit(emb.cache, emb.texts[i])

\* embed_texts returned for a list with a whitespace-only entry among texts
\* that were posted
C22_Witness ==
    /\ EmbDone("embed_texts")
    /\ emb.outcome.kind = "return"
    /\ emb.texts = << <<"a">>, <<" ">>, <<"b">> >>
    /\ emb.sent # <<>>

\* what the provider answers for the text at position i
Answered(i) == ProviderEmbedding(Truncate(emb.texts[i]))

\* C26: embed_texts with caching on, the provider answering one embedding per
\* input in order: the result has one vector per input at the same position; a
\* non-blank text that was in the cache at the call is never posted; every post
\* carries at most batch_size texts; and when the k-th post fails the call
\* raises with the embeddings of the earlier posts already in the cache.
C26_BatchEmbedding ==
    (EmbDone("embed_texts") /\ emb.use_cache) =>
        /\ emb.outcome.kind = "return" =>
              /\ Len(emb.outcome.val) = Len(emb.texts)
              /\ \A i \in DOMAIN emb.texts :
                    emb.outcome.val[i] =
                       IF Blank(emb.texts[i]) THEN ZeroVector
                       ELSE IF Cache_hit(emb.cache0, emb.texts[i])
                       THEN Cache_get(emb.cache0, emb.texts[i])
                       ELSE Answered(i)
        /\ \A t \in SentTexts : ~Cache_hit(emb.cache0, t)
        /\ \A k \in DOMAIN emb.sent : Len(emb.sent[k]) \in 1..emb.batch_size
        /\ emb.failed =>
              /\ emb.outcome.kind = "raise"
              /\ \A k \in 1..(Len(emb.sent) - 1) : \A j \in DOMAIN emb.sent[k] :
                    /\ Cache_hit(emb.cache, emb.sent[k][j])
                    /\ Cache_get(emb.cache, emb.sent[k][j])
                          = ProviderEmbedding(emb.sent[k][j])

\* the second post of a call failed after the first one had answered, and a
\* text of the call was served from the cache
C26_Witness ==
    /\ EmbDone("embed_texts") /\ emb.use_cache
    /\ emb.failed
    /\ Len(emb.sent) = 2
    /\ \E i \in DOMAIN emb.texts : Cache_hit(emb.cache0, emb.texts[i])

\* embed_texts returned vectors from the cache, from the provider and for a
\* blank entry in one call of two posts
C26_WitnessReturn ==
    /\ EmbDone("embed_texts") /\ emb.use_cache
    /\ emb.outcome.kind = "return"
    /\ Len(emb.sent) = 2


(***************************************************************************)
(* SpecRace: two extract_from_conversation runs of one user, each from the *)
(* point where its candidate memory is built, interleaved at their awaits  *)
(***************************************************************************)
\* run k of the two: a _filter_duplicates loop over its one candidate, then
\* bulk_create; seen is the set of the memory ids stored when the duplicate
\* search of the candidate ran
ExtractionRun(user_id, cand) ==
    [pc |-> "filter", user_id |-> user_id,
     memories |-> <<NewMemory(cand[1], user_id, cand[2], cand[3], 8000, 0)>>,
     i |-> 1, filtered |-> <<>>, seen |-> {}]

RaceInit ==
    /\ now = 0
    /\ index = IndexOf(StoredMemories)
    /\ rag = RagIdle
    /\ ext = ExtIdle
    /\ rr = RrIdle
    /\ mem = MemIdle
    /\ docs = DocsEmpty
    /\ ch = ChIdle
    /\ emb = EmbIdle
    /\ \E user_id \in Users : \E c1, c2 \in CandidatePool :
          /\ c1 # c2
          /\ tasks = <<ExtractionRun(user_id, c1), ExtractionRun(user_id, c2)>>

\* one iteration of the loop of _filter_duplicates in run k
RaceFilterDuplicate(k) ==
    /\ tasks[k].pc = "filter" /\ tasks[k].i <= Len(tasks[k].memories)
    /\ LET run == tasks[k]
           memory == run.memories[run.i] IN
       \E similar \in search_similar(index, memory.short_text, run.user_id, 1,
                                     DUP_MIN_SCORE, {memory.memory_type}) :
          IF similar # <<>>
          THEN /\ index' = mark_referenced(index, similar[1].memory.memory_id, now)
               /\ tasks' = [tasks EXCEPT ![k].i = @ + 1, ![k].seen = DOMAIN index]
          ELSE /\ index' = index
               /\ tasks' = [tasks EXCEPT ![k].i = @ + 1, ![k].seen = DOMAIN index,
                                         ![k].filtered = Append(@, memory)]
    /\ UNCHANGED <<now, rag, ext, rr, mem, docs, ch, emb>>

\* lines 157-172 in run k: nothing to store, or bulk_create
RaceStoreMemories(k) ==
    /\ tasks[k].pc = "filter" /\ tasks[k].i > Len(tasks[k].memories)
    /\ tasks' = [tasks EXCEPT ![k].pc = "done"]
    /\ index' = IF tasks[k].filtered = <<>> THEN index
                ELSE bulk_create(index, tasks[k].filtered)
    /\ UNCHANGED <<now, rag, ext, rr, mem, docs, ch, emb>>

RaceNext ==
    \E k \in {1, 2} : RaceFilterDuplicate(k) \/ RaceStoreMemories(k)

SpecRace == RaceInit /\ [][RaceNext]_vars

\* the candidate of run k
RaceCandidate(k) == tasks[k].memories[1]

\* the two runs hold candidates of the same type with similarity >= 0.85 for a
\* fact of which nothing equivalent was stored before the runs
SameNewFact ==
    /\ RaceCandidate(1).memory_type = RaceCandidate(2).memory_type
    /\ Cosine(RaceCandidate(1).short_text, RaceCandidate(2).short_text) >= DUP_MIN_SCORE
    /\ \A k \in {1, 2} :
          Duplicates(IndexOf(StoredMemories), tasks[k].user_id, RaceCandidate(k)) = {}

BothRunsDone == tasks[1].pc = "done" /\ tasks[2].pc = "done"

\* C28: two concurrent extraction runs of one user that hold equivalent
\* candidates for a fact not yet stored both insert it exactly when the
\* duplicate search of each ran before the bulk_create of the other: nothing
\* orders the search of one run and the insertion of the other.
C28_BothInsertIffChecksPrecedeStores ==
    (BothRunsDone /\ SameNewFact) =>
        ( {RaceCandidate(1).memory_id, RaceCandidate(2).memory_id} \subseteq DOMAIN index
            <=> /\ RaceCandidate(2).memory_id \notin tasks[1].seen
                /\ RaceCandidate(1).memory_id \notin tasks[2].seen )

\* both runs are over and the index holds the two near-duplicate memories
C28_Witness ==
    /\ BothRunsDone /\ SameNewFact
    /\ {RaceCandidate(1).memory_id, RaceCandidate(2).memory_id} \subseteq DOMAIN index


(***************************************************************************)
(* SpecReindex: two index_document calls for one path with different       *)
(* contents, interleaved at their awaits                                   *)
(***************************************************************************)
\* the contents given to the two calls
ReindexContents ==
    { <<"n", "e", "w", " ", "t", "e", "x", "t">>,
      <<"n", "e", "w", "e", "r", " ", "t", "e", "x", "t", " ", "o", "f", " ", "n", "2">>,
      Rep("a", 4 * UPSERT_BATCH + 9) }

\* index_document(path, content, chunk_size=2, chunk_overlap=1) past its blank
\* check, lines 77-85
IndexCall(path, content) ==
    [op |-> "index_document", path |-> path, content |-> content,
     last_modified |-> 0, pc |-> "delete_by_path", result |-> None]

ReindexInit ==
    /\ now = 0
    /\ index = IndexOf(StoredMemories)
    /\ rag = RagIdle
    /\ ext = ExtIdle
    /\ rr = RrIdle
    /\ mem = MemIdle
    /\ ch = ChIdle
    /\ emb = EmbIdle
    /\ docs = PreviousPoints("n1") \cup PreviousPoints("n2")
    /\ \E path \in DOMAIN Paths : \E c1, c2 \in ReindexContents :
          /\ c1 # c2
          /\ tasks = <<IndexCall(path, c1), IndexCall(path, c2)>>

\* in call k delete_by_path returns and chunk_document runs: lines 88-94
ReindexDeleteByPath(k) ==
    /\ tasks[k].pc = "delete_by_path"
    /\ docs' = {p \in docs : p.path # tasks[k].path}
    /\ \E c \in {chunk_document(tasks[k].content, tasks[k].path,
                                IndexParams[1], IndexParams[2])} :
          tasks' = [tasks EXCEPT ![k] =
                      IF c.pc # "done" THEN [@ EXCEPT !.pc = "chunking"]
                      ELSE IF c.chunks = <<>> THEN [@ EXCEPT !.pc = "done", !.result = 0]
                      ELSE [@ EXCEPT !.pc = "embed_texts"] @@ [chunks |-> c.chunks]]
    /\ UNCHANGED <<now, index, rag, ext, rr, mem, ch, emb>>

\* in call k embed_texts returns and the points are prepared: lines 97-117
ReindexEmbed(k) ==
    /\ tasks[k].pc = "embed_texts"
    /\ tasks' = [tasks EXCEPT ![k] =
                   [@ EXCEPT !.pc = "upsert"]
                     @@ [points |-> IndexPoints(tasks[k].path, tasks[k].chunks,
                                                tasks[k].last_modified),
                         i |-> 0]]
    /\ UNCHANGED <<now, index, rag, ext, rr, mem, docs, ch, emb>>

\* in call k one client.upsert of upsert_points_batch returns; after the last
\* one index_document returns len(chunks)
ReindexUpsertBatch(k) ==
    /\ tasks[k].pc = "upsert"
    /\ LET t == tasks[k]
           batch == PySlice(t.points, t.i, t.i + UPSERT_BATCH)
       IN /\ docs' = upsert(docs, batch)
          /\ tasks' = [tasks EXCEPT ![k] =
                         IF t.i + UPSERT_BATCH < Len(t.points)
                         THEN [t EXCEPT !.i = @ + UPSERT_BATCH]
                         ELSE [t EXCEPT !.i = @ + UPSERT_BATCH, !.pc = "done",
                                        !.result = Len(t.chunks)]]
    /\ UNCHANGED <<now, index, rag, ext, rr, mem, ch, emb>>

ReindexNext ==
    \E k \in {1, 2} :
       \/ ReindexDeleteByPath(k)
       \/ ReindexEmbed(k)
       \/ ReindexUpsertBatch(k)

SpecReindex == ReindexInit /\ [][ReindexNext]_vars

\* the complete chunk set of the content of call k
PointsOfCall(k) ==
    Range(IndexPoints(tasks[k].path,
                      chunk_document(tasks[k].content, tasks[k].path,
                                     IndexParams[1], IndexParams[2]).chunks,
                      tasks[k].last_modified))

\* C29: when two concurrent index_document calls for one path with different
\* contents have both completed, the chunks stored for the path are exactly
\* the chunk set of one of the two calls, never a mixture.
C29_OneCallsChunksRemain ==
    (tasks[1].pc = "done" /\ tasks[2].pc = "done") =>
        \E k \in {1, 2} : {p \in docs : p.path = tasks[1].path} = PointsOfCall(k)

====
